---- MODULE Spec2Model ----
\* A model of the buffer pool (LRU replacer + buffer pool manager) and of
\* the concurrent B+ tree index built on it.
\*
\* The whole memory of the program is one record s; every C++ method is an
\* operator from such a record to such a record.  A pointer to a Page or to a
\* BPlusTreePage is the index of the frame it points into: page objects live
\* in the frame array pages_, and the tree casts between a Page pointer and
\* the pointer to the page's data freely.  A failed assert, a null
\* dereference or an out-of-range array access ends the process: s.failed
\* names it.
EXTENDS Integers, Sequences, FiniteSets, TLC

(* ------------------------------ bounds -------------------------------- *)
\* keys are 1..NumKeys
NumKeys == 4
\* largest page id the disk manager hands out in the runs explored
MaxPages == 3
\* the runs that call the buffer pool directly: frames, page ids, pins on one page
PoolFrames == 1
PoolPages == 3
MaxPins == 2

(* ------------------------- program constants -------------------------- *)
INVALID_PAGE_ID == -1
HEADER_PAGE_ID == 0
nullptr == -1

Keys == 1..NumKeys
\* the keys a tree may hold: those and the keys of the grown tree
AllKeys == 1..(2 * NumKeys + 1)
\* the record ids a caller stores with a key: two choices for key 1, one for the others
ValuesOf(k) == IF k = 1 THEN {11, 12} ELSE {10 * k + 1}
\* the default-constructed ValueType (an invalid RID)
DefaultValue == 0 - 1
\* constructor arguments (leaf_max_size, internal_max_size) explored
LeafMaxSizes == {3}
InternalMaxSizes == {3}
\* pool_size of the runs with one caller: a frame for every page the disk
\* manager hands out (0..MaxPages)
PoolSize == MaxPages + 1
\* pool_size of the runs with two callers: never exhausted by their programs
ParPoolSize == 12
\* slots of a page's entry array (LEAF_PAGE_SIZE / INTERNAL_PAGE_SIZE)
Cap == NumKeys + 1
Slots == 0..(Cap - 1)
Threads == {1, 2}

Max(a, b) == IF a > b THEN a ELSE b

(* ----------------------------- page images ---------------------------- *)
\* a page of zero bytes read as a B+ tree page
ZeroData ==
  [page_type_ |-> "INVALID_INDEX_PAGE", size_ |-> 0, max_size_ |-> 0,
   parent_page_id_ |-> 0, page_id_ |-> 0, next_page_id_ |-> 0,
   array |-> [i \in Slots |-> <<0, 0>>]]

\* Page::Page(): zeroed data, no page, unpinned, clean
NewFrame == [page_id_ |-> INVALID_PAGE_ID, pin_count_ |-> 0, is_dirty_ |-> FALSE,
             data |-> ZeroData]

FreeLatch == [w |-> 0, r |-> [t \in Threads |-> 0]]

\* evaluate v once, then continue with K on its value
Then(v, K(_)) == CHOOSE r_ \in {K(x_) : x_ \in {v}} : TRUE
\* the same, but a failed process stays as it is
OkThen(v, K(_)) == CHOOSE r_ \in {IF x_.failed = "" THEN K(x_) ELSE x_ : x_ \in {v}} : TRUE

Fail(s, why) == IF s.failed = "" THEN [s EXCEPT !.failed = why] ELSE s
Ok(s) == s.failed = ""

D(s, p) == s.pages_[p].data
RemoveFrom(seq, x) == SelectSeq(seq, LAMBDA y : y # x)
InSeq(seq, x) == \E i \in 1..Len(seq) : seq[i] = x
Front(seq) == SubSeq(seq, 1, Len(seq) - 1)
Last(seq) == seq[Len(seq)]

(* ----------------------------- LRUReplacer ---------------------------- *)
\* list_ front is index 1; map_ holds exactly the frames of list_
LRUPin(list, f) == RemoveFrom(list, f)
\* an Unpin that moves a frame already tracked to the front
LRUUnpin_MovesToFront(list, f) == <<f>> \o RemoveFrom(list, f)
LRUUnpin(list, f) == IF InSeq(list, f) THEN list ELSE <<f>> \o list
LRUSize(list) == Len(list)
\* a Victim that takes the front of the list, the frame unpinned last
LRUVictim_Front(list) ==
  IF list = <<>> THEN <<FALSE, nullptr, list>> ELSE <<TRUE, Head(list), Tail(list)>>
\* Victim: <<the bool returned, *frame_id, list_ afterwards>>
LRUVictim(list) ==
  IF list = <<>> THEN <<FALSE, nullptr, list>> ELSE <<TRUE, Last(list), Front(list)>>

(* ------------------------------ disk ---------------------------------- *)
DiskRead(s, pid) == IF pid \in DOMAIN s.disk THEN s.disk[pid] ELSE ZeroData

\* the hash of a page image is modelled by the image itself
write_disk(s, f) ==
  IF s.pages_[f].data # s.hash_[f]
  THEN [s EXCEPT !.disk = (s.pages_[f].page_id_ :> s.pages_[f].data) @@ @,
                 !.hash_[f] = s.pages_[f].data]
  ELSE s

(* -------------------------- BufferPoolManager ------------------------- *)
\* a choice of frame that asks the replacer before it looks at the free list
PickFrame_ReplacerFirst(s) ==
  Then(LRUVictim(s.list_), LAMBDA v :
  IF v[1] THEN [s EXCEPT !.rv = v[2], !.list_ = v[3]]
  ELSE IF s.free_list_ # <<>>
  THEN [s EXCEPT !.rv = Last(s.free_list_), !.free_list_ = Front(@)]
  ELSE [s EXCEPT !.rv = nullptr])

\* the frame to reuse: free list first, else the replacer's victim; rv = nullptr if none
PickFrame(s) ==
  IF s.free_list_ # <<>>
  THEN [s EXCEPT !.rv = Last(s.free_list_), !.free_list_ = Front(@)]
  ELSE Then(LRUVictim(s.list_), LAMBDA v :
       IF ~v[1] THEN [s EXCEPT !.rv = nullptr]
       ELSE [s EXCEPT !.rv = v[2], !.list_ = v[3]])

DropKey(fn, k) == [x \in (DOMAIN fn) \ {k} |-> fn[x]]

\* FetchPageImpl once the frame f = s.rv has been picked
FetchIntoFrame(s, page_id, fromFree) ==
  LET f == s.rv
      old == IF f = nullptr THEN INVALID_PAGE_ID ELSE s.pages_[f].page_id_
  IN IF f = nullptr THEN s
     ELSE IF ~fromFree /\ old = INVALID_PAGE_ID
     THEN Fail(s, "assert FetchPageImpl victim holds a page")
     ELSE Then(IF old # INVALID_PAGE_ID
               THEN [s EXCEPT !.page_table_ = DropKey(@, old)] ELSE s, LAMBDA e :
          Then(IF old # INVALID_PAGE_ID /\ e.pages_[f].is_dirty_
               THEN write_disk(e, f) ELSE e, LAMBDA w :
          [w EXCEPT !.pages_[f].data = DiskRead(w, page_id),
                    !.pages_[f].page_id_ = page_id,
                    !.pages_[f].is_dirty_ = FALSE,
                    !.pages_[f].pin_count_ = @ + 1,
                    !.page_table_ = (page_id :> f) @@ @,
                    !.list_ = LRUPin(@, f),
                    !.rv = f]))

\* rv is the Page pointer returned (a frame, or nullptr)
FetchPageImpl(s, page_id) ==
  LET found == page_id \in DOMAIN s.page_table_ IN
  IF found /\ s.pages_[s.page_table_[page_id]].page_id_ = page_id
  THEN LET f == s.page_table_[page_id] IN
       [s EXCEPT !.pages_[f].pin_count_ = @ + 1, !.list_ = LRUPin(@, f), !.rv = f]
  ELSE Then(IF found THEN [s EXCEPT !.page_table_ = DropKey(@, page_id)] ELSE s, LAMBDA e :
       Then(PickFrame(e), LAMBDA p : FetchIntoFrame(p, page_id, e.free_list_ # <<>>)))

\* UnpinPageImpl that stores is_dirty as the frame's dirty flag
UnpinPageImpl_ClearsDirty(s, page_id, is_dirty) ==
  IF page_id \notin DOMAIN s.page_table_ THEN [s EXCEPT !.rv = TRUE]
  ELSE
    LET f == s.page_table_[page_id]
        dirty == is_dirty
        pins == s.pages_[f].pin_count_
    IN IF s.pages_[f].page_id_ # page_id
       THEN [s EXCEPT !.page_table_ = DropKey(@, page_id), !.rv = TRUE]
       ELSE IF pins > 1
       THEN [s EXCEPT !.pages_[f].is_dirty_ = dirty, !.pages_[f].pin_count_ = pins - 1,
                      !.rv = TRUE]
       ELSE IF pins = 1
       THEN Then([s EXCEPT !.pages_[f].is_dirty_ = dirty, !.pages_[f].pin_count_ = 0],
                 LAMBDA u :
            Then(IF dirty THEN write_disk(u, f) ELSE u, LAMBDA w :
            [w EXCEPT !.list_ = LRUUnpin(@, f), !.rv = TRUE]))
       ELSE [s EXCEPT !.pages_[f].is_dirty_ = dirty, !.rv = FALSE]

\* UnpinPageImpl that hands the frame to the replacer while pins remain
UnpinPageImpl_TracksPinned(s, page_id, is_dirty) ==
  IF page_id \notin DOMAIN s.page_table_ THEN [s EXCEPT !.rv = TRUE]
  ELSE
    LET f == s.page_table_[page_id]
        dirty == is_dirty \/ s.pages_[f].is_dirty_
        pins == s.pages_[f].pin_count_
    IN IF s.pages_[f].page_id_ # page_id
       THEN [s EXCEPT !.page_table_ = DropKey(@, page_id), !.rv = TRUE]
       ELSE IF pins > 1
       THEN [s EXCEPT !.pages_[f].is_dirty_ = dirty, !.pages_[f].pin_count_ = pins - 1,
                      !.list_ = LRUUnpin(@, f), !.rv = TRUE]
       ELSE IF pins = 1
       THEN Then([s EXCEPT !.pages_[f].is_dirty_ = dirty, !.pages_[f].pin_count_ = 0],
                 LAMBDA u :
            Then(IF dirty THEN write_disk(u, f) ELSE u, LAMBDA w :
            [w EXCEPT !.list_ = LRUUnpin(@, f), !.rv = TRUE]))
       ELSE [s EXCEPT !.pages_[f].is_dirty_ = dirty, !.rv = FALSE]

\* rv is the bool returned
UnpinPageImpl(s, page_id, is_dirty) ==
  IF page_id \notin DOMAIN s.page_table_ THEN [s EXCEPT !.rv = TRUE]
  ELSE
    LET f == s.page_table_[page_id]
        dirty == is_dirty \/ s.pages_[f].is_dirty_
        pins == s.pages_[f].pin_count_
    IN IF s.pages_[f].page_id_ # page_id
       THEN [s EXCEPT !.page_table_ = DropKey(@, page_id), !.rv = TRUE]
       ELSE IF pins > 1
       THEN [s EXCEPT !.pages_[f].is_dirty_ = dirty, !.pages_[f].pin_count_ = pins - 1,
                      !.rv = TRUE]
       ELSE IF pins = 1
       THEN Then([s EXCEPT !.pages_[f].is_dirty_ = dirty, !.pages_[f].pin_count_ = 0],
                 LAMBDA u :
            Then(IF dirty THEN write_disk(u, f) ELSE u, LAMBDA w :
            [w EXCEPT !.list_ = LRUUnpin(@, f), !.rv = TRUE]))
       ELSE [s EXCEPT !.pages_[f].is_dirty_ = dirty, !.rv = FALSE]

FlushPageImpl(s, page_id) ==
  IF page_id \notin DOMAIN s.page_table_ THEN [s EXCEPT !.rv = FALSE]
  ELSE LET f == s.page_table_[page_id] IN
    IF s.pages_[f].page_id_ # page_id THEN [s EXCEPT !.rv = FALSE]
    ELSE Then(write_disk(s, f), LAMBDA w :
              [w EXCEPT !.pages_[f].is_dirty_ = FALSE, !.rv = TRUE])

\* NewPageImpl once the frame f = s.rv has been picked
NewIntoFrame(s) ==
  LET f == s.rv
      old == IF f = nullptr THEN INVALID_PAGE_ID ELSE s.pages_[f].page_id_
  IN IF f = nullptr THEN s
     ELSE Then(IF old # INVALID_PAGE_ID /\ s.pages_[f].is_dirty_
               THEN write_disk(s, f) ELSE s, LAMBDA w :
          Then(IF old # INVALID_PAGE_ID
               THEN [w EXCEPT !.page_table_ = DropKey(@, old)] ELSE w, LAMBDA e :
          [e EXCEPT !.next_page_id_ = @ + 1,
                    !.pages_[f].page_id_ = e.next_page_id_,
                    !.pages_[f].pin_count_ = 1,
                    !.pages_[f].is_dirty_ = FALSE,
                    !.list_ = LRUPin(@, f),
                    !.page_table_ = (e.next_page_id_ :> f) @@ @,
                    !.rv = f, !.rvid = e.next_page_id_]))

\* rv is the Page pointer returned (a frame, or nullptr), rvid the page id
\* written through *page_id; AllocatePage hands out next_page_id_
NewPageImpl(s) == Then(PickFrame(s), LAMBDA p : NewIntoFrame(p))

\* DeletePageImpl that frees the frame whatever its pin count
DeletePageImpl_IgnoresPins(s, page_id) ==
  IF page_id \notin DOMAIN s.page_table_ THEN [s EXCEPT !.rv = TRUE]
  ELSE LET f == s.page_table_[page_id] IN
    IF s.pages_[f].page_id_ # page_id THEN [s EXCEPT !.rv = TRUE]
    ELSE [s EXCEPT !.pages_[f].page_id_ = INVALID_PAGE_ID,
                   !.pages_[f].is_dirty_ = FALSE,
                   !.list_ = LRUPin(@, f),
                   !.free_list_ = Append(@, f),
                   !.rv = TRUE]

\* DeletePageImpl that leaves the freed frame in the replacer
DeletePageImpl_KeepsTracked(s, page_id) ==
  IF page_id \notin DOMAIN s.page_table_ THEN [s EXCEPT !.rv = TRUE]
  ELSE LET f == s.page_table_[page_id] IN
    IF s.pages_[f].page_id_ # page_id THEN [s EXCEPT !.rv = TRUE]
    ELSE IF s.pages_[f].pin_count_ # 0 THEN [s EXCEPT !.rv = FALSE]
    ELSE [s EXCEPT !.pages_[f].page_id_ = INVALID_PAGE_ID,
                   !.pages_[f].is_dirty_ = FALSE,
                   !.free_list_ = Append(@, f),
                   !.rv = TRUE]

DeletePageImpl(s, page_id) ==
  IF page_id \notin DOMAIN s.page_table_ THEN [s EXCEPT !.rv = TRUE]
  ELSE LET f == s.page_table_[page_id] IN
    IF s.pages_[f].page_id_ # page_id THEN [s EXCEPT !.rv = TRUE]
    ELSE IF s.pages_[f].pin_count_ # 0 THEN [s EXCEPT !.rv = FALSE]
    ELSE [s EXCEPT !.pages_[f].page_id_ = INVALID_PAGE_ID,
                   !.pages_[f].is_dirty_ = FALSE,
                   !.list_ = LRUPin(@, f),
                   !.free_list_ = Append(@, f),
                   !.rv = TRUE]

RECURSIVE FlushFrames(_, _)
FlushFrames(s, i) ==
  IF i \notin DOMAIN s.pages_ THEN s
  ELSE Then(IF s.pages_[i].page_id_ # INVALID_PAGE_ID THEN write_disk(s, i) ELSE s,
            LAMBDA w : FlushFrames(w, i + 1))

FlushAllPagesImpl(s) == FlushFrames(s, 0)

(* ------------------------- B+ tree page (common) ---------------------- *)
SetD(s, p, d) == [s EXCEPT !.pages_[p].data = d]
IsLeafPage(d) == d.page_type_ = "LEAF_PAGE"
IsRootPage(d) == d.parent_page_id_ = INVALID_PAGE_ID
CeilHalf(n) == (n + 1) \div 2
GetMinSize(d) ==
  IF IsRootPage(d) THEN (IF IsLeafPage(d) THEN 1 ELSE 2) ELSE CeilHalf(d.max_size_)
IsSafe(d, op) ==
  IF op = "INSERT" THEN d.size_ < d.max_size_ ELSE d.size_ > GetMinSize(d)
KeyAt(d, i) == d.array[i][1]
ValueAt(d, i) == d.array[i][2]
InSlots(i) == i >= 0 /\ i < Cap
NullDeref(s) == Fail(s, "null dereference: FetchPage returned nullptr")
OutOfRange(s) == Fail(s, "array index out of range")

(* ------------------------------ leaf page ----------------------------- *)
LeafInit(d, page_id, parent_id, max_size) ==
  [d EXCEPT !.page_type_ = "LEAF_PAGE", !.size_ = 0, !.page_id_ = page_id,
            !.parent_page_id_ = parent_id, !.next_page_id_ = INVALID_PAGE_ID,
            !.max_size_ = max_size]

RECURSIVE KeyIndexLoop(_, _, _, _)
KeyIndexLoop(arr, key, st, ed) ==
  IF st > ed THEN ed + 1
  ELSE Then(((ed - st) \div 2) + st, LAMBDA mid :
       IF arr[mid][1] >= key THEN KeyIndexLoop(arr, key, st, mid - 1)
       ELSE KeyIndexLoop(arr, key, mid + 1, ed))

KeyIndex(d, key) == KeyIndexLoop(d.array, key, 0, d.size_ - 1)

\* <<found, value>>
LeafLookup(d, key) ==
  Then(KeyIndex(d, key), LAMBDA idx :
  IF idx < d.size_ /\ d.array[idx][1] = key THEN <<TRUE, d.array[idx][2]>>
  ELSE <<FALSE, DefaultValue>>)

\* entry idx and the entries above it move up by one; the new entry goes to idx
InsertAt(d, idx, pair) ==
  [d EXCEPT !.size_ = @ + 1,
            !.array = [i \in Slots |->
                         IF i = idx THEN pair
                         ELSE IF i > idx /\ i <= d.size_ THEN d.array[i - 1]
                         ELSE d.array[i]]]

LeafInsert(d, key, value) ==
  Then(KeyIndex(d, key), LAMBDA idx : InsertAt(d, idx, <<key, value>>))

\* the entries above index move down by one
RemoveAt(d, index) ==
  [d EXCEPT !.size_ = @ - 1,
            !.array = [i \in Slots |->
                         IF i >= index /\ i < d.size_ - 1 THEN d.array[i + 1]
                         ELSE d.array[i]]]

RemoveAndDeleteRecord(d, key) ==
  Then(KeyIndex(d, key), LAMBDA index :
  IF index >= d.size_ \/ key # KeyAt(d, index) THEN d ELSE RemoveAt(d, index))

\* the entries [from, to) of src written to dst starting at slot `at`
CopyRange(dst, src, from, to, at) ==
  [i \in Slots |-> IF i >= at /\ i < at + (to - from) THEN src[from + (i - at)] ELSE dst[i]]

\* a MoveHalfTo whose recipient ends one entry short
LeafMoveHalfTo_OneShort(s, node, recipient) ==
  LET d == D(s, node)
      r == D(s, recipient)
      total == d.max_size_ + 1
      copyIdx == total \div 2
  IN IF recipient = nullptr THEN Fail(s, "assert recipient != nullptr")
     ELSE IF d.size_ # total THEN Fail(s, "assert leaf MoveHalfTo GetSize() == total")
     ELSE [s EXCEPT !.pages_[recipient].data =
                      [r EXCEPT !.array = CopyRange(r.array, d.array, copyIdx, total, 0),
                                !.next_page_id_ = d.next_page_id_,
                                !.size_ = total - copyIdx - 1],
                    !.pages_[node].data =
                      [d EXCEPT !.next_page_id_ = r.page_id_, !.size_ = copyIdx]]

LeafMoveHalfTo(s, node, recipient) ==
  LET d == D(s, node)
      r == D(s, recipient)
      total == d.max_size_ + 1
      copyIdx == total \div 2
  IN IF recipient = nullptr THEN Fail(s, "assert recipient != nullptr")
     ELSE IF d.size_ # total THEN Fail(s, "assert leaf MoveHalfTo GetSize() == total")
     ELSE [s EXCEPT !.pages_[recipient].data =
                      [r EXCEPT !.array = CopyRange(r.array, d.array, copyIdx, total, 0),
                                !.next_page_id_ = d.next_page_id_,
                                !.size_ = total - copyIdx],
                    !.pages_[node].data =
                      [d EXCEPT !.next_page_id_ = r.page_id_, !.size_ = copyIdx]]

LeafMoveAllTo(s, node, recipient, middle_key) ==
  LET d == D(s, node)
      r == D(s, recipient)
      startIdx == r.size_
  IN IF recipient = nullptr THEN Fail(s, "assert recipient != nullptr")
     ELSE IF d.size_ + r.size_ > r.max_size_
     THEN Fail(s, "assert leaf MoveAllTo sizes fit the recipient")
     ELSE IF ~InSlots(startIdx) \/ startIdx + d.size_ > Cap THEN OutOfRange(s)
     ELSE Then(CopyRange(r.array, d.array, 0, d.size_, startIdx), LAMBDA a1 :
          [s EXCEPT !.pages_[recipient].data =
                      [r EXCEPT !.array = [a1 EXCEPT ![startIdx] = <<middle_key, @[2]>>],
                                !.next_page_id_ = d.next_page_id_,
                                !.size_ = @ + d.size_],
                    !.pages_[node].data = [d EXCEPT !.size_ = 0]])

\* IncreaseSize(-1); for (i = 0; i < size_t(GetSize() - 1); i++) array[i] = array[i + 1]
PopFirst(d) ==
  [d EXCEPT !.size_ = @ - 1,
            !.array = [i \in Slots |-> IF i < d.size_ - 2 THEN d.array[i + 1] ELSE d.array[i]]]

\* CopyLastFrom(pair); the caller has checked its assert
CopyLastFrom(d, pair) == [d EXCEPT !.array[d.size_] = pair, !.size_ = @ + 1]

ValueIndex(d, v) ==
  LET hits == {i \in Slots : i < d.size_ /\ d.array[i][2] = v} IN
  IF hits = {} THEN 0 - 1 ELSE CHOOSE i \in hits : \A j \in hits : i <= j

\* page = FetchPage(GetParentPageId()); parent->SetKeyAt(parent->ValueIndex(GetPageId()),
\* array[0].first); UnpinPage(GetParentPageId(), true), for the page in frame node
UpdateParentKey(s, node) ==
  LET me == D(s, node) IN
  OkThen(FetchPageImpl(s, me.parent_page_id_), LAMBDA s1 :
    IF s1.rv = nullptr THEN NullDeref(s1)
    ELSE Then(ValueIndex(D(s1, s1.rv), me.page_id_), LAMBDA idx :
         IF ~InSlots(idx) THEN OutOfRange(s1)
         ELSE Then([s1 EXCEPT !.pages_[s1.rv].data.array[idx] = <<D(s1, node).array[0][1],
                                                                   @[2]>>], LAMBDA s2 :
              UnpinPageImpl(s2, D(s2, node).parent_page_id_, TRUE))))

LeafMoveFirstToEndOf(s, node, recipient) ==
  LET d == D(s, node)
      r == D(s, recipient)
  IN IF d.size_ - 2 < 0 THEN OutOfRange(s)
     ELSE IF r.size_ + 1 > r.max_size_ THEN Fail(s, "assert leaf CopyLastFrom fits")
     ELSE Then([s EXCEPT !.pages_[node].data = PopFirst(d),
                         !.pages_[recipient].data = CopyLastFrom(r, d.array[0])],
               LAMBDA s1 : UpdateParentKey(s1, node))

\* the body of the source is empty
LeafMoveLastToFrontOf(s, node, recipient) == s

(* ---------------------------- internal page --------------------------- *)
InternalInit(d, page_id, parent_id, max_size) ==
  [d EXCEPT !.page_type_ = "INTERNAL_PAGE", !.size_ = 0, !.page_id_ = page_id,
            !.parent_page_id_ = parent_id, !.max_size_ = max_size]

RECURSIVE InternalLookupLoop(_, _, _, _)
InternalLookupLoop(arr, key, start, end) ==
  IF start > end THEN arr[start - 1][2]
  ELSE Then(((end - start) \div 2) + start, LAMBDA mid :
       IF arr[mid][1] <= key THEN InternalLookupLoop(arr, key, mid + 1, end)
       ELSE InternalLookupLoop(arr, key, start, mid - 1))

\* the caller has checked assert(GetSize() > 1)
InternalLookup(d, key) == InternalLookupLoop(d.array, key, 1, d.size_ - 1)

PopulateNewRoot(d, old_value, new_key, new_value) ==
  [d EXCEPT !.array[0] = <<@[1], old_value>>, !.array[1] = <<new_key, new_value>>,
            !.size_ = 2]

\* the caller has checked assert(idx > 0)
InsertNodeAfter(d, old_value, new_key, new_value) ==
  Then(ValueIndex(d, old_value) + 1, LAMBDA idx : InsertAt(d, idx, <<new_key, new_value>>))

\* the caller has checked assert(index >= 0 && index < GetSize())
InternalRemove(d, index) == RemoveAt(d, index)

\* FetchPage(child); SetParentPageId(parent); UnpinPage(child, true)
Adopt(s, child, parent) ==
  OkThen(FetchPageImpl(s, child), LAMBDA s1 :
    IF s1.rv = nullptr THEN NullDeref(s1)
    ELSE Then([s1 EXCEPT !.pages_[s1.rv].data.parent_page_id_ = parent], LAMBDA s2 :
         UnpinPageImpl(s2, child, TRUE)))

RECURSIVE AdoptAll(_, _, _)
AdoptAll(s, children, parent) ==
  IF children = <<>> \/ ~Ok(s) THEN s
  ELSE Then(Adopt(s, Head(children), parent), LAMBDA s1 :
            AdoptAll(s1, Tail(children), parent))

\* the values (child page ids) of the entries [from, to) of d
ChildrenIn(d, from, to) == [i \in 1..(to - from) |-> d.array[from + i - 1][2]]

InternalMoveHalfTo(s, node, recipient) ==
  LET d == D(s, node)
      total == d.max_size_ + 1
      copyIdx == total \div 2
  IN IF recipient = nullptr THEN Fail(s, "assert recipient != nullptr")
     ELSE IF d.size_ # total THEN Fail(s, "assert internal MoveHalfTo GetSize() == total")
     ELSE OkThen(AdoptAll(s, ChildrenIn(d, copyIdx, total), D(s, recipient).page_id_),
                 LAMBDA s1 :
          [s1 EXCEPT !.pages_[recipient].data =
                       [@ EXCEPT !.array = CopyRange(@, d.array, copyIdx, total, 0),
                                 !.size_ = total - copyIdx],
                     !.pages_[node].data.size_ = copyIdx])

InternalMoveAllTo(s, node, recipient, middle_key) ==
  LET d == D(s, node)
      start == D(s, recipient).size_
      recipPageId == D(s, recipient).page_id_
  IN IF ~InSlots(start) \/ start + d.size_ > Cap THEN OutOfRange(s)
     ELSE OkThen(AdoptAll(s, ChildrenIn(d, 0, Max(d.size_, 0)), recipPageId), LAMBDA s1 :
          Then(CopyRange(D(s1, recipient).array, d.array, 0, d.size_, start), LAMBDA a1 :
          Then([s1 EXCEPT !.pages_[recipient].data =
                            [@ EXCEPT !.array = [a1 EXCEPT ![start] = <<middle_key, @[2]>>],
                                      !.size_ = start + d.size_]], LAMBDA s2 :
          IF start + d.size_ > d.max_size_
          THEN Fail(s2, "assert internal MoveAllTo recipient size <= GetMaxSize()")
          ELSE Then([s2 EXCEPT !.pages_[node].data.size_ = 0], LAMBDA s3 :
               UnpinPageImpl(s3, recipPageId, TRUE)))))

\* page = FetchPage(child); SetParentPageId(the page id of frame owner);
\* UnpinPage(childPage->GetPageId(), true)
AdoptByOwner(s, child, owner, isAsserted) ==
  OkThen(FetchPageImpl(s, child), LAMBDA s1 :
    IF s1.rv = nullptr
    THEN (IF isAsserted THEN Fail(s1, "assert page != nullptr") ELSE NullDeref(s1))
    ELSE Then([s1 EXCEPT !.pages_[s1.rv].data.parent_page_id_ = D(s1, owner).page_id_],
              LAMBDA s2 : UnpinPageImpl(s2, D(s2, s1.rv).page_id_, TRUE)))

InternalMoveFirstToEndOf(s, node, recipient) ==
  LET d == D(s, node)
      r == D(s, recipient)
  IN IF d.size_ - 2 < 0 THEN OutOfRange(s)
     ELSE IF r.size_ + 1 > r.max_size_ THEN Fail(s, "assert internal CopyLastFrom fits")
     ELSE Then([s EXCEPT !.pages_[node].data = PopFirst(d),
                         !.pages_[recipient].data = CopyLastFrom(r, d.array[0])],
               LAMBDA s1 :
          OkThen(AdoptByOwner(s1, d.array[0][2], recipient, TRUE), LAMBDA s2 :
          UpdateParentKey(s2, node)))

\* for (i = 1; i < size; i++) array[i] = array[i - 1]: every slot below size gets array[0]
InternalCopyFirstFrom(s, node, pair) ==
  LET d == D(s, node) IN
  IF ~(d.size_ + 1 < d.max_size_) THEN Fail(s, "assert internal CopyFirstFrom fits")
  ELSE Then([s EXCEPT !.pages_[node].data =
                        [d EXCEPT !.size_ = @ + 1,
                                  !.array = [i \in Slots |->
                                               IF i = 0 THEN pair
                                               ELSE IF i < d.size_ THEN d.array[0]
                                               ELSE d.array[i]]]], LAMBDA s1 :
       OkThen(AdoptByOwner(s1, pair[2], node, FALSE), LAMBDA s2 :
       UpdateParentKey(s2, node)))

InternalMoveLastToFrontOf(s, node, recipient) ==
  LET d == D(s, node) IN
  IF ~InSlots(d.size_ - 1) THEN OutOfRange(s)
  ELSE Then([s EXCEPT !.pages_[node].data.size_ = @ - 1], LAMBDA s1 :
       InternalCopyFirstFrom(s1, recipient, d.array[d.size_ - 1]))


(* ------------------------- latches (rwlatch) -------------------------- *)
CanAcquire(l, exclusive) ==
  IF exclusive THEN l.w = 0 /\ \A u \in Threads : l.r[u] = 0 ELSE l.w = 0
Acquire(l, t, exclusive) ==
  IF exclusive THEN [l EXCEPT !.w = t] ELSE [l EXCEPT !.r[t] = @ + 1]
Holds(l, t, exclusive) == IF exclusive THEN l.w = t ELSE l.r[t] > 0
Release(l, t, exclusive) ==
  IF exclusive THEN [l EXCEPT !.w = 0] ELSE [l EXCEPT !.r[t] = @ - 1]

(* --------------------- per-thread operation context ------------------- *)
\* the locals of the operation a thread is running, its Transaction (page
\* set, deleted page set), its thread_local rootLockedCnt and its iterator;
\* did records which restructurings the call went through
IdleThread ==
  [pc |-> "idle", op |-> "none", key |-> 0, value |-> 0, ret |-> "none", result |-> <<>>,
   txn |-> FALSE, opType |-> "READ", page_set |-> <<>>, deleted_set |-> {},
   rootLockedCnt |-> 0, page |-> nullptr, fetchId |-> INVALID_PAGE_ID,
   previous |-> INVALID_PAGE_ID, isRootFetch |-> FALSE, leaf |-> nullptr, index |-> 0,
   node |-> nullptr, other |-> nullptr, kind |-> "leaf", midKey |-> 0, newId |-> 0,
   parentPtr |-> nullptr, sibIndex |-> 0, unpins |-> <<>>, did |-> {}]

T(s, t) == s.th[t]

\* the locals are dead once the operation has returned
Done(s, t, ret) ==
  LET o == T(s, t) IN
  [s EXCEPT !.th[t] = [IdleThread EXCEPT !.pc = "done", !.op = o.op, !.key = o.key,
                                         !.value = o.value, !.ret = ret, !.result = o.result,
                                         !.txn = o.txn, !.page_set = o.page_set,
                                         !.deleted_set = o.deleted_set,
                                         !.rootLockedCnt = o.rootLockedCnt,
                                         !.leaf = o.leaf, !.index = o.index,
                                         !.did = o.did]]

\* throw Exception(OUT_OF_MEMORY): the operation ends without releasing anything
Throw(s, t) == Done(s, t, "OUT_OF_MEMORY")

Lock(s, t, exclusive, page) == [s EXCEPT !.latch[page] = Acquire(@, t, exclusive)]

Unlock(s, t, exclusive, page) ==
  IF page = nullptr THEN NullDeref(s)
  ELSE IF ~Holds(s.latch[page], t, exclusive)
  THEN Fail(s, "unlatch of a latch the thread does not hold")
  ELSE [s EXCEPT !.latch[page] = Release(@, t, exclusive)]

\* Unlock(bool, page_id_t): fetch the page, unlatch it, unpin the fetch
UnlockById(s, t, exclusive, page_id) ==
  OkThen(FetchPageImpl(s, page_id), LAMBDA s1 :
  OkThen(Unlock(s1, t, exclusive, s1.rv), LAMBDA s2 :
  UnpinPageImpl(s2, page_id, exclusive)))

LockRootPageId(s, t, exclusive) ==
  [s EXCEPT !.root_latch = Acquire(@, t, exclusive), !.th[t].rootLockedCnt = @ + 1]

TryUnlockRootPageId(s, t, exclusive) ==
  IF T(s, t).rootLockedCnt > 0
  THEN IF ~Holds(s.root_latch, t, exclusive)
       THEN Fail(s, "unlatch of a latch the thread does not hold")
       ELSE [s EXCEPT !.root_latch = Release(@, t, exclusive), !.th[t].rootLockedCnt = @ - 1]
  ELSE s

(* ----------------------------- header page ---------------------------- *)
\* the header page keeps the records of this one index: size_ records, the
\* root page id in array[0]
InsertRecord(d, root_id) ==
  IF d.size_ = 0 THEN [d EXCEPT !.size_ = 1, !.array[0] = <<1, root_id>>] ELSE d
UpdateRecord(d, root_id) ==
  IF d.size_ > 0 THEN [d EXCEPT !.array[0] = <<1, root_id>>] ELSE d

(* ------------------------------ BPlusTree ----------------------------- *)
IsEmpty(s) == s.root_page_id_ = INVALID_PAGE_ID

\* an UpdateRootPageId that keeps its pin of the header page
UpdateRootPageId_KeepsPin(s, insert_record) ==
  OkThen(FetchPageImpl(s, HEADER_PAGE_ID), LAMBDA s1 :
    IF s1.rv = nullptr THEN NullDeref(s1)
    ELSE [s1 EXCEPT !.pages_[s1.rv].data =
                      IF insert_record # 0 THEN InsertRecord(@, s1.root_page_id_)
                      ELSE UpdateRecord(@, s1.root_page_id_)])

UpdateRootPageId(s, insert_record) ==
  OkThen(FetchPageImpl(s, HEADER_PAGE_ID), LAMBDA s1 :
    IF s1.rv = nullptr THEN NullDeref(s1)
    ELSE Then([s1 EXCEPT !.pages_[s1.rv].data =
                           IF insert_record # 0 THEN InsertRecord(@, s1.root_page_id_)
                           ELSE UpdateRecord(@, s1.root_page_id_)], LAMBDA s2 :
         UnpinPageImpl(s2, HEADER_PAGE_ID, TRUE)))

\* one round of FreePagesInTransaction's loop, for frame page holding page curPageId
FreeOne(s, t, write, page, curPageId) ==
  OkThen(Unlock(s, t, write, page), LAMBDA s1 :
  Then(UnpinPageImpl(s1, curPageId, write), LAMBDA s2 :
  IF curPageId \in T(s2, t).deleted_set
  THEN Then(DeletePageImpl(s2, curPageId), LAMBDA s3 :
            [s3 EXCEPT !.th[t].deleted_set = @ \ {curPageId}])
  ELSE s2))

RECURSIVE FreeLoop(_, _, _, _)
FreeLoop(s, t, write, pages) ==
  IF pages = <<>> \/ ~Ok(s) THEN s
  ELSE Then(FreeOne(s, t, write, Head(pages), s.pages_[Head(pages)].page_id_), LAMBDA s1 :
            FreeLoop(s1, t, write, Tail(pages)))

FreePagesInTransaction(s, t, write, cur) ==
  OkThen(TryUnlockRootPageId(s, t, write), LAMBDA s1 :
  IF ~T(s1, t).txn
  THEN IF write \/ cur < 0 THEN Fail(s1, "assert !write && cur >= 0")
       ELSE OkThen(UnlockById(s1, t, FALSE, cur), LAMBDA s2 : UnpinPageImpl(s2, cur, FALSE))
  ELSE OkThen(FreeLoop(s1, t, write, T(s1, t).page_set), LAMBDA s2 :
       IF T(s2, t).deleted_set # {}
       THEN Fail(s2, "assert transaction->GetDeletedPageSet()->empty()")
       ELSE [s2 EXCEPT !.th[t].page_set = <<>>]))

StartNewTree(s, t) ==
  Then(NewPageImpl(s), LAMBDA s1 :
  IF s1.rv = nullptr THEN Throw(s1, t)
  ELSE Then([s1 EXCEPT !.pages_[s1.rv].data =
                         LeafInit(@, s1.rvid, INVALID_PAGE_ID, s1.leaf_max_size_),
                       !.root_page_id_ = s1.rvid], LAMBDA s2 :
       OkThen(UpdateRootPageId(s2, 1), LAMBDA s3 :
       Then([s3 EXCEPT !.pages_[s1.rv].data = LeafInsert(@, T(s3, t).key, T(s3, t).value)],
            LAMBDA s4 : UnpinPageImpl(s4, s1.rvid, TRUE)))))

(* ---------------- operations as steps between latch waits ------------- *)
\* Each M_<pc> is the code a thread runs from the program point <pc> to the
\* next one.  A thread waits (and another thread may run) only at the points
\* where it acquires a latch: SchedPcs.
BodyPc(op) ==
  CASE op = "Insert" -> "Ins_Body"
    [] op = "Remove" -> "Rem_Body"
    [] op = "GetValue" -> "Get_Body"
    [] OTHER -> "Beg_Body"

\* Insert: LockRootPageId(true); StartNewTree or fall through to InsertIntoLeaf
M_Ins_LockRoot(s, t) ==
  Then(LockRootPageId(s, t, TRUE), LAMBDA s1 :
  IF IsEmpty(s1)
  THEN OkThen(StartNewTree(s1, t), LAMBDA s2 :
       IF T(s2, t).pc = "done" THEN s2
       ELSE OkThen(TryUnlockRootPageId(s2, t, TRUE), LAMBDA s3 : Done(s3, t, "true")))
  ELSE OkThen(TryUnlockRootPageId(s1, t, TRUE), LAMBDA s2 :
       [s2 EXCEPT !.th[t].pc = "FLP_LockRoot"]))

\* FindLeafPage up to the first CrabingProtocalFetchPage's Lock
M_FLP_LockRoot(s, t) ==
  Then(LockRootPageId(s, t, T(s, t).opType # "READ"), LAMBDA s1 :
  IF IsEmpty(s1)
  THEN OkThen(TryUnlockRootPageId(s1, t, T(s, t).opType # "READ"), LAMBDA s2 :
       [s2 EXCEPT !.th[t].leaf = nullptr, !.th[t].pc = BodyPc(T(s2, t).op)])
  ELSE Then(FetchPageImpl(s1, s1.root_page_id_), LAMBDA s2 :
       [s2 EXCEPT !.th[t].page = s2.rv, !.th[t].fetchId = s1.root_page_id_,
                  !.th[t].previous = 0 - 1, !.th[t].isRootFetch = TRUE,
                  !.th[t].pc = "Crab_Latch"]))

\* FindLeafPage's loop after a CrabingProtocalFetchPage has returned frame page
FindLeafLoop(s, t, page) ==
  LET o == T(s, t)
      pointer == D(s, page)
      cur == IF o.isRootFetch THEN s.root_page_id_ ELSE o.fetchId
  IN IF IsLeafPage(pointer)
     THEN [s EXCEPT !.th[t].leaf = page, !.th[t].pc = BodyPc(o.op)]
     ELSE IF ~(pointer.size_ > 1) THEN Fail(s, "assert internal Lookup GetSize() > 1")
     ELSE Then(InternalLookup(pointer, o.key), LAMBDA next :
          Then(FetchPageImpl(s, next), LAMBDA s4 :
          [s4 EXCEPT !.th[t].page = s4.rv, !.th[t].fetchId = next,
                     !.th[t].previous = cur, !.th[t].isRootFetch = FALSE,
                     !.th[t].pc = "Crab_Latch"]))

\* a CrabingProtocalFetchPage that releases the page above only in a write
\* descent
M_Crab_Latch_ReadKeeps(s, t) ==
  LET o == T(s, t)
      write == o.opType # "READ"
      page == o.page
  IN IF page = nullptr THEN NullDeref(s)
     ELSE Then(Lock(s, t, write, page), LAMBDA s1 :
          OkThen(IF o.previous > 0 /\ write /\ IsSafe(D(s1, page), o.opType)
                 THEN FreePagesInTransaction(s1, t, write, o.previous) ELSE s1, LAMBDA s2 :
          Then(IF o.txn THEN [s2 EXCEPT !.th[t].page_set = Append(@, page)] ELSE s2,
               LAMBDA s3 : FindLeafLoop(s3, t, page))))

\* CrabingProtocalFetchPage from Lock(write, page) on, then FindLeafPage's loop
\* up to the next Lock
M_Crab_Latch(s, t) ==
  LET o == T(s, t)
      write == o.opType # "READ"
      page == o.page
  IN IF page = nullptr THEN NullDeref(s)
     ELSE Then(Lock(s, t, write, page), LAMBDA s1 :
          OkThen(IF o.previous > 0 /\ (~write \/ IsSafe(D(s1, page), o.opType))
                 THEN FreePagesInTransaction(s1, t, write, o.previous) ELSE s1, LAMBDA s2 :
          Then(IF o.txn THEN [s2 EXCEPT !.th[t].page_set = Append(@, page)] ELSE s2,
               LAMBDA s3 : FindLeafLoop(s3, t, page))))

\* GetValue after FindLeafPage
M_Get_Body(s, t) ==
  LET o == T(s, t)
      target == o.leaf
  IN IF target = nullptr THEN Fail(s, "null dereference: FindLeafPage returned nullptr")
     ELSE Then(LeafLookup(D(s, target), o.key), LAMBDA lk :
          Then([s EXCEPT !.th[t].result = Append(@, lk[2])], LAMBDA s1 :
          OkThen(FreePagesInTransaction(s1, t, FALSE, D(s1, target).page_id_), LAMBDA s2 :
          Done(s2, t, IF lk[1] THEN "true" ELSE "false"))))

\* an InsertIntoLeaf that stores the new value over the old one before it
\* reports the duplicate
InsertIntoLeaf_Overwrites(s, t) ==
  LET o == T(s, t)
      d == D(s, o.leaf)
  IN Then(KeyIndex(d, o.key), LAMBDA idx :
     Then([s EXCEPT !.pages_[o.leaf].data.array[idx] = <<o.key, o.value>>], LAMBDA s0 :
     OkThen(FreePagesInTransaction(s0, t, TRUE, 0 - 1), LAMBDA s1 : Done(s1, t, "false"))))

\* InsertIntoLeaf where the key exists
InsertIntoLeaf_Exists(s, t) ==
  OkThen(FreePagesInTransaction(s, t, TRUE, 0 - 1), LAMBDA s1 : Done(s1, t, "false"))

\* InsertIntoLeaf after FindLeafPage, up to Split
M_Ins_Body(s, t) ==
  LET o == T(s, t)
      leafPage == o.leaf
  IN IF leafPage = nullptr
     THEN Fail(s, "null dereference: FindLeafPage returned nullptr")
     ELSE IF LeafLookup(D(s, leafPage), o.key)[1] THEN InsertIntoLeaf_Exists(s, t)
     ELSE IF ~InSlots(D(s, leafPage).size_) THEN OutOfRange(s)
     ELSE Then(LeafInsert(D(s, leafPage), o.key, o.value), LAMBDA d1 :
          IF d1.size_ = d1.max_size_ + 1
          THEN [s EXCEPT !.pages_[leafPage].data = d1, !.th[t].node = leafPage,
                         !.th[t].kind = "leaf", !.th[t].pc = "Split"]
          ELSE [s EXCEPT !.pages_[leafPage].data = d1, !.th[t].pc = "Ins_Unwind"])

\* Split: NewPage, up to newPage->WLatch()
M_Split(s, t) ==
  Then(NewPageImpl(s), LAMBDA s1 :
  [s1 EXCEPT !.th[t].page = s1.rv, !.th[t].newId = s1.rvid, !.th[t].pc = "Split_Latch"])

\* Split from newPage->WLatch() on, and the caller's SetMaxSize
M_Split_Latch(s, t) ==
  LET o == T(s, t)
      newPage == o.page
      parent_id == D(s, o.node).parent_page_id_
  IN IF newPage = nullptr THEN Fail(s, "null dereference: NewPage returned nullptr")
     ELSE Then([s EXCEPT !.latch[newPage] = Acquire(@, t, TRUE),
                         !.th[t].page_set = Append(@, newPage),
                         !.pages_[newPage].data =
                           IF o.kind = "leaf" THEN LeafInit(@, o.newId, parent_id, Cap)
                           ELSE InternalInit(@, o.newId, parent_id, Cap)], LAMBDA s1 :
          OkThen(IF o.kind = "leaf" THEN LeafMoveHalfTo(s1, o.node, newPage)
                 ELSE InternalMoveHalfTo(s1, o.node, newPage), LAMBDA s2 :
          [s2 EXCEPT !.pages_[newPage].data.max_size_ =
                       IF o.kind = "leaf" THEN s.leaf_max_size_ - 1
                       ELSE s.internal_max_size_,
                     !.th[t].other = newPage,
                     !.th[t].did = @ \cup {IF o.kind = "leaf" THEN "split leaf"
                                           ELSE "split internal"},
                     !.th[t].midKey = KeyAt(D(s2, newPage), 0),
                     !.th[t].pc = "IIP"]))

\* InsertIntoParent when old_node is the root
IIP_NewRoot(s, t) ==
  LET o == T(s, t) IN
  Then(NewPageImpl(s), LAMBDA s1 :
  IF s1.rv = nullptr THEN Throw(s1, t)
  ELSE Then([s1 EXCEPT !.root_page_id_ = s1.rvid,
                       !.pages_[s1.rv].data =
                         PopulateNewRoot(InternalInit(@, s1.rvid, INVALID_PAGE_ID,
                                                      s1.internal_max_size_),
                                         D(s1, o.node).page_id_, o.midKey,
                                         D(s1, o.other).page_id_)], LAMBDA s2 :
       Then([s2 EXCEPT !.pages_[o.node].data.parent_page_id_ = s1.rvid], LAMBDA s3 :
       Then([s3 EXCEPT !.pages_[o.other].data.parent_page_id_ = s1.rvid], LAMBDA s4 :
       OkThen(UpdateRootPageId(s4, 0), LAMBDA s5 :
       Then(UnpinPageImpl(s5, D(s5, s1.rv).page_id_, TRUE), LAMBDA s6 :
       [s6 EXCEPT !.th[t].did = @ \cup {"new root"}, !.th[t].pc = "Ins_Unwind"]))))))

\* InsertIntoParent when old_node has a parent: parent is its frame, pinned by FetchPage
IIP_Parent(s, t, parentId, parent) ==
  LET o == T(s, t) IN
  Then([s EXCEPT !.pages_[o.other].data.parent_page_id_ = parentId], LAMBDA s2 :
  IF ~(ValueIndex(D(s2, parent), D(s2, o.node).page_id_) + 1 > 0)
  THEN Fail(s2, "assert InsertNodeAfter idx > 0")
  ELSE IF ~InSlots(D(s2, parent).size_) THEN OutOfRange(s2)
  ELSE Then(InsertNodeAfter(D(s2, parent), D(s2, o.node).page_id_, o.midKey,
                            D(s2, o.other).page_id_), LAMBDA pd1 :
       IF pd1.size_ = pd1.max_size_ + 1
       THEN [s2 EXCEPT !.pages_[parent].data = pd1,
                       !.th[t].unpins = Append(@, parentId),
                       !.th[t].node = parent, !.th[t].kind = "internal",
                       !.th[t].pc = "Split"]
       ELSE Then([s2 EXCEPT !.pages_[parent].data = pd1], LAMBDA s3 :
            Then(UnpinPageImpl(s3, parentId, TRUE), LAMBDA s4 :
            [s4 EXCEPT !.th[t].pc = "Ins_Unwind"]))))

\* InsertIntoParent(old_node = node, key = midKey, new_node = other)
M_IIP(s, t) ==
  IF IsRootPage(D(s, T(s, t).node)) THEN IIP_NewRoot(s, t)
  ELSE OkThen(FetchPageImpl(s, D(s, T(s, t).node).parent_page_id_), LAMBDA s1 :
       IF s1.rv = nullptr THEN NullDeref(s1)
       ELSE IIP_Parent(s1, t, D(s, T(s, t).node).parent_page_id_, s1.rv))

\* the pending UnpinPage(parentId, true) of the InsertIntoParent calls being returned from
RECURSIVE UnpinAll(_, _)
UnpinAll(s, ids) ==
  IF ids = <<>> THEN s
  ELSE Then(UnpinPageImpl(s, Last(ids), TRUE), LAMBDA s1 : UnpinAll(s1, Front(ids)))

\* return through InsertIntoParent; InsertIntoLeaf's FreePagesInTransaction; return true
M_Ins_Unwind(s, t) ==
  Then(UnpinAll(s, T(s, t).unpins), LAMBDA s1 :
  Then([s1 EXCEPT !.th[t].unpins = <<>>], LAMBDA s2 :
  OkThen(FreePagesInTransaction(s2, t, TRUE, 0 - 1), LAMBDA s3 : Done(s3, t, "true"))))


\* Remove after FindLeafPage, up to CoalesceOrRedistribute
M_Rem_Body(s, t) ==
  LET o == T(s, t)
      deleteTarget == o.leaf
  IN IF deleteTarget = nullptr
     THEN Fail(s, "null dereference: FindLeafPage returned nullptr")
     ELSE Then(RemoveAndDeleteRecord(D(s, deleteTarget), o.key), LAMBDA d1 :
          IF d1.size_ < GetMinSize(d1)
          THEN [s EXCEPT !.pages_[deleteTarget].data = d1, !.th[t].node = deleteTarget,
                         !.th[t].kind = "leaf", !.th[t].pc = "COR"]
          ELSE [s EXCEPT !.pages_[deleteTarget].data = d1, !.th[t].pc = "Rem_Unwind"])

AdjustRoot(s, old_root_node) ==
  LET d == D(s, old_root_node) IN
  IF IsLeafPage(d)
  THEN IF d.size_ # 0 THEN Fail(s, "assert AdjustRoot leaf root GetSize() == 0")
       ELSE Then([s EXCEPT !.root_page_id_ = INVALID_PAGE_ID], LAMBDA s1 :
                 UpdateRootPageId(s1, 0))
  ELSE IF d.size_ # 1 THEN Fail(s, "assert AdjustRoot internal root GetSize() == 1")
  ELSE Then([s EXCEPT !.pages_[old_root_node].data.size_ = @ - 1,
                      !.root_page_id_ = ValueAt(d, 0)], LAMBDA s1 :
       OkThen(UpdateRootPageId(s1, 0), LAMBDA s2 :
       OkThen(FetchPageImpl(s2, ValueAt(d, 0)), LAMBDA s3 :
       IF s3.rv = nullptr THEN Fail(s3, "assert page != nullptr")
       ELSE Then([s3 EXCEPT !.pages_[s3.rv].data.parent_page_id_ = INVALID_PAGE_ID],
                 LAMBDA s4 : UnpinPageImpl(s4, ValueAt(d, 0), TRUE)))))

\* FindSibling up to the Lock of its crabbing fetch; parent is the frame FetchPage returned
FindSibling(s, t, parent) ==
  LET node == T(s, t).node
      index == ValueIndex(D(s, parent), D(s, node).page_id_)
      siblingIndex == IF index = 0 THEN 1 ELSE index - 1
  IN IF ~InSlots(siblingIndex) THEN OutOfRange(s)
     ELSE Then(FetchPageImpl(s, ValueAt(D(s, parent), siblingIndex)), LAMBDA s2 :
          [s2 EXCEPT !.th[t].page = s2.rv, !.th[t].parentPtr = parent,
                     !.th[t].sibIndex = index, !.th[t].pc = "Sib_Latch"])

\* CoalesceOrRedistribute(node) up to the Lock of FindSibling's crabbing fetch
M_COR(s, t) ==
  LET node == T(s, t).node IN
  IF IsRootPage(D(s, node))
  THEN OkThen(AdjustRoot(s, node), LAMBDA s1 :
       [s1 EXCEPT !.th[t].deleted_set = @ \cup {D(s1, node).page_id_},
                  !.th[t].did = @ \cup {"adjust root"},
                  !.th[t].pc = "Rem_Unwind"])
  ELSE OkThen(FetchPageImpl(s, D(s, node).parent_page_id_), LAMBDA s1 :
       IF s1.rv = nullptr THEN NullDeref(s1) ELSE FindSibling(s1, t, s1.rv))

Redistribute(s, kind, neighbor_node, node, index) ==
  IF index = 0
  THEN IF kind = "leaf" THEN LeafMoveFirstToEndOf(s, neighbor_node, node)
       ELSE InternalMoveFirstToEndOf(s, neighbor_node, node)
  ELSE IF kind = "leaf" THEN LeafMoveLastToFrontOf(s, neighbor_node, node)
       ELSE InternalMoveLastToFrontOf(s, neighbor_node, node)

\* Coalesce(&neighbor_node, &node, &parent, index), then the caller's UnpinPage unless
\* CoalesceOrRedistribute is called again for the parent
Coalesce(s, t, neighbor_node, node, parentPage, index) ==
  IF D(s, neighbor_node).size_ + D(s, node).size_ > D(s, node).max_size_
  THEN Fail(s, "assert Coalesce sizes fit (*node)->GetMaxSize()")
  ELSE IF ~InSlots(index) THEN OutOfRange(s)
  ELSE OkThen(IF T(s, t).kind = "leaf"
              THEN LeafMoveAllTo(s, node, neighbor_node, KeyAt(D(s, parentPage), index))
              ELSE InternalMoveAllTo(s, node, neighbor_node, KeyAt(D(s, parentPage), index)),
              LAMBDA s4 :
       IF ~(index >= 0 /\ index < D(s4, parentPage).size_)
       THEN Fail(s4, "assert internal Remove index in range")
       ELSE Then([s4 EXCEPT !.th[t].deleted_set = @ \cup {D(s4, node).page_id_},
                            !.th[t].did = @ \cup {"coalesce"},
                            !.pages_[parentPage].data = InternalRemove(@, index)],
                 LAMBDA s6 :
            IF D(s6, parentPage).size_ <= GetMinSize(D(s6, parentPage))
            THEN [s6 EXCEPT !.th[t].unpins = Append(@, parentPage),
                            !.th[t].node = parentPage,
                            !.th[t].kind = "internal", !.th[t].pc = "COR"]
            ELSE Then(UnpinPageImpl(s6, D(s6, parentPage).page_id_, TRUE), LAMBDA s7 :
                 [s7 EXCEPT !.th[t].pc = "Rem_Unwind"])))

\* CoalesceOrRedistribute after FindSibling has returned otherNode = page, with
\* parentPage the frame of the second FetchPage(node->GetParentPageId())
COR_Decide(s, t, page, parentPage) ==
  LET o == T(s, t)
      nPrev == o.sibIndex = 0
  IN IF D(s, o.node).size_ + D(s, page).size_ <= D(s, o.node).max_size_
     THEN IF nPrev
          THEN Coalesce(s, t, o.node, page, parentPage,
                        ValueIndex(D(s, parentPage), D(s, page).page_id_))
          ELSE Coalesce(s, t, page, o.node, parentPage,
                        ValueIndex(D(s, parentPage), D(s, o.node).page_id_))
     ELSE OkThen(Redistribute(s, o.kind, page, o.node,
                              ValueIndex(D(s, parentPage), D(s, o.node).page_id_)),
                 LAMBDA s4 :
          Then(UnpinPageImpl(s4, D(s4, parentPage).page_id_, FALSE), LAMBDA s5 :
          [s5 EXCEPT !.th[t].did = @ \cup {"redistribute"}, !.th[t].pc = "Rem_Unwind"]))

\* FindSibling from the Lock of its crabbing fetch on, then the rest of
\* CoalesceOrRedistribute up to a recursive call or the return
M_Sib_Latch(s, t) ==
  LET o == T(s, t)
      page == o.page
  IN IF page = nullptr THEN NullDeref(s)
     ELSE Then([s EXCEPT !.latch[page] = Acquire(@, t, TRUE),
                         !.th[t].page_set = Append(@, page)], LAMBDA s1 :
          Then(UnpinPageImpl(s1, D(s1, o.parentPtr).page_id_, FALSE), LAMBDA s2 :
          OkThen(FetchPageImpl(s2, D(s2, o.node).parent_page_id_), LAMBDA s3 :
          IF s3.rv = nullptr THEN NullDeref(s3) ELSE COR_Decide(s3, t, page, s3.rv))))

\* the pending UnpinPage(parentPage->GetPageId(), true) of the
\* CoalesceOrRedistribute calls being returned from
RECURSIVE UnpinParents(_, _)
UnpinParents(s, ptrs) ==
  IF ptrs = <<>> THEN s
  ELSE Then(UnpinPageImpl(s, D(s, Last(ptrs)).page_id_, TRUE), LAMBDA s1 :
            UnpinParents(s1, Front(ptrs)))

\* return through CoalesceOrRedistribute; Remove's FreePagesInTransaction
M_Rem_Unwind(s, t) ==
  Then(UnpinParents(s, T(s, t).unpins), LAMBDA s1 :
  Then([s1 EXCEPT !.th[t].unpins = <<>>], LAMBDA s2 :
  OkThen(FreePagesInTransaction(s2, t, TRUE, 0 - 1), LAMBDA s3 : Done(s3, t, "void"))))

(* ------------------------------ iterator ------------------------------ *)
isEnd(s, t) ==
  T(s, t).leaf = nullptr \/ T(s, t).index >= D(s, T(s, t).leaf).size_

\* Begin(key) after FindLeafPage: the iterator (leaf, index) is built
M_Beg_Body(s, t) ==
  OkThen(TryUnlockRootPageId(s, t, FALSE), LAMBDA s1 :
  IF T(s1, t).leaf = nullptr
  THEN [s1 EXCEPT !.th[t].index = 0, !.th[t].pc = "It_Loop"]
  ELSE [s1 EXCEPT !.th[t].index = KeyIndex(D(s1, T(s1, t).leaf), T(s1, t).key),
                  !.th[t].pc = "It_Loop"])

\* UnlockAndUnPin, and operator++ behind it up to page->RLatch()
LeaveLeaf(s, t, leaf) ==
  OkThen(FetchPageImpl(s, leaf.page_id_), LAMBDA s2 :
  OkThen(Unlock(s2, t, FALSE, s2.rv), LAMBDA s3 :
  Then(UnpinPageImpl(s3, leaf.page_id_, FALSE), LAMBDA s4 :
  IF leaf.next_page_id_ = INVALID_PAGE_ID
  THEN [s4 EXCEPT !.th[t].leaf = nullptr]
  ELSE Then(FetchPageImpl(s4, leaf.next_page_id_), LAMBDA s5 :
       [s5 EXCEPT !.th[t].page = s5.rv, !.th[t].pc = "It_Latch"]))))

\* the caller's loop: while (!it.isEnd()) { use *it; ++it; }, up to RLatch of the next leaf
M_It_Loop(s, t) ==
  LET o == T(s, t) IN
  IF isEnd(s, t) THEN Done(s, t, "void")
  ELSE Then([s EXCEPT !.th[t].result = Append(@, D(s, o.leaf).array[o.index][1]),
                      !.th[t].index = @ + 1], LAMBDA s1 :
       IF o.index + 1 >= D(s, o.leaf).size_ THEN LeaveLeaf(s1, t, D(s, o.leaf)) ELSE s1)

\* operator++ from page->RLatch() on
M_It_Latch(s, t) ==
  LET page == T(s, t).page IN
  IF page = nullptr THEN NullDeref(s)
  ELSE [s EXCEPT !.latch[page] = Acquire(@, t, FALSE), !.th[t].leaf = page,
                 !.th[t].index = 0, !.th[t].pc = "It_Loop"]

(* --------------------------- the step machine ------------------------- *)
SchedPcs == {"Ins_LockRoot", "FLP_LockRoot", "Crab_Latch", "Sib_Latch", "Split_Latch",
             "It_Latch"}

\* can the latch a waiting thread asks for be granted now
Guard(s, t) ==
  LET o == T(s, t) IN
  CASE o.pc = "Ins_LockRoot" -> CanAcquire(s.root_latch, TRUE)
    [] o.pc = "FLP_LockRoot" -> CanAcquire(s.root_latch, o.opType # "READ")
    [] o.pc = "Crab_Latch" ->
         o.page = nullptr \/ CanAcquire(s.latch[o.page], o.opType # "READ")
    [] o.pc \in {"Sib_Latch", "Split_Latch"} ->
         o.page = nullptr \/ CanAcquire(s.latch[o.page], TRUE)
    [] o.pc = "It_Latch" -> o.page = nullptr \/ CanAcquire(s.latch[o.page], FALSE)
    [] OTHER -> TRUE

Micro(s, t) ==
  LET pc == T(s, t).pc IN
  CASE pc = "Ins_LockRoot" -> M_Ins_LockRoot(s, t)
    [] pc = "FLP_LockRoot" -> M_FLP_LockRoot(s, t)
    [] pc = "Crab_Latch" -> M_Crab_Latch(s, t)
    [] pc = "Get_Body" -> M_Get_Body(s, t)
    [] pc = "Ins_Body" -> M_Ins_Body(s, t)
    [] pc = "Split" -> M_Split(s, t)
    [] pc = "Split_Latch" -> M_Split_Latch(s, t)
    [] pc = "IIP" -> M_IIP(s, t)
    [] pc = "Ins_Unwind" -> M_Ins_Unwind(s, t)
    [] pc = "Rem_Body" -> M_Rem_Body(s, t)
    [] pc = "COR" -> M_COR(s, t)
    [] pc = "Sib_Latch" -> M_Sib_Latch(s, t)
    [] pc = "Rem_Unwind" -> M_Rem_Unwind(s, t)
    [] pc = "Beg_Body" -> M_Beg_Body(s, t)
    [] pc = "It_Loop" -> M_It_Loop(s, t)
    [] pc = "It_Latch" -> M_It_Latch(s, t)
    [] OTHER -> s

Returned(s, t) == T(s, t).pc \in {"idle", "done"}
Terminal(s, t) == Returned(s, t) \/ ~Ok(s)

\* a thread yields where it must wait; the latch of a page it has just
\* created is free unless the frame's latch is still held by someone
Yields(s, t) ==
  T(s, t).pc \in SchedPcs /\ (T(s, t).pc = "Split_Latch" => ~Guard(s, t))

\* run thread t alone until it returns, fails, or waits for a latch nobody will release
RECURSIVE RunSeq(_, _)
RunSeq(s, t) ==
  IF Terminal(s, t) \/ ~Guard(s, t) THEN s
  ELSE Then(Micro(s, t), LAMBDA n : RunSeq(n, t))

\* run thread t from where it is to its next wait
RECURSIVE RunToSched(_, _)
RunToSched(s, t) ==
  IF Terminal(s, t) \/ Yields(s, t) THEN s
  ELSE Then(Micro(s, t), LAMBDA n : RunToSched(n, t))

StepT(s, t) == Then(Micro(s, t), LAMBDA n : RunToSched(n, t))

\* the call of an operation: fresh locals, the thread's Transaction and
\* thread_local counter carried over
StartCtx(o, op, key, value, txn, opType, pc) ==
  [IdleThread EXCEPT !.pc = pc, !.op = op, !.key = key, !.value = value, !.txn = txn,
                     !.opType = opType, !.page_set = o.page_set,
                     !.deleted_set = o.deleted_set, !.rootLockedCnt = o.rootLockedCnt]

CallInsert(s, t, k, v) ==
  [s EXCEPT !.th[t] = StartCtx(@, "Insert", k, v, TRUE, "INSERT", "Ins_LockRoot")]
\* Remove reads root_page_id_ (IsEmpty) before it takes any latch
CallRemove(s, t, k) ==
  IF IsEmpty(s)
  THEN [s EXCEPT !.th[t] = [StartCtx(@, "Remove", k, 0, TRUE, "DELETE", "done")
                              EXCEPT !.ret = "void"]]
  ELSE [s EXCEPT !.th[t] = StartCtx(@, "Remove", k, 0, TRUE, "DELETE", "FLP_LockRoot")]
CallGetValue(s, t, k, txn) ==
  [s EXCEPT !.th[t] = StartCtx(@, "GetValue", k, 0, txn, "READ", "FLP_LockRoot")]
CallBegin(s, t, k) ==
  [s EXCEPT !.th[t] = StartCtx(@, "Begin", k, 0, FALSE, "READ", "FLP_LockRoot")]


(* ------------------------------- state -------------------------------- *)
VARIABLES pages_, page_table_, free_list_, list_, disk, hash_, next_page_id_,
          root_page_id_, leaf_max_size_, internal_max_size_, root_latch, latch, th, failed,
          prep, prog, rets, snap

\* the callers' side: the calls made before the threads start (prep), the
\* calls each thread makes in turn (prog), what its finished calls returned
\* (rets), and the keys stored when its scan began (snap)
callers == <<prep, prog, rets, snap>>

vars == <<pages_, page_table_, free_list_, list_, disk, hash_, next_page_id_,
          root_page_id_, leaf_max_size_, internal_max_size_, root_latch, latch, th, failed,
          prep, prog, rets, snap>>

\* the program's memory as one record (rv, rvid: return value and out-parameter)
S ==
  [pages_ |-> pages_, page_table_ |-> page_table_, free_list_ |-> free_list_,
   list_ |-> list_, disk |-> disk, hash_ |-> hash_, next_page_id_ |-> next_page_id_,
   root_page_id_ |-> root_page_id_, leaf_max_size_ |-> leaf_max_size_,
   internal_max_size_ |-> internal_max_size_, root_latch |-> root_latch,
   latch |-> latch, th |-> th, failed |-> failed, rv |-> 0, rvid |-> 0]

SP ==
  [pages_ |-> pages_', page_table_ |-> page_table_', free_list_ |-> free_list_',
   list_ |-> list_', disk |-> disk', hash_ |-> hash_', next_page_id_ |-> next_page_id_',
   root_page_id_ |-> root_page_id_', leaf_max_size_ |-> leaf_max_size_',
   internal_max_size_ |-> internal_max_size_', root_latch |-> root_latch',
   latch |-> latch', th |-> th', failed |-> failed', rv |-> 0, rvid |-> 0]

Becomes(n) ==
  /\ pages_' = n.pages_
  /\ page_table_' = n.page_table_
  /\ free_list_' = n.free_list_
  /\ list_' = n.list_
  /\ disk' = n.disk
  /\ hash_' = n.hash_
  /\ next_page_id_' = n.next_page_id_
  /\ root_page_id_' = n.root_page_id_
  /\ leaf_max_size_' = n.leaf_max_size_
  /\ internal_max_size_' = n.internal_max_size_
  /\ root_latch' = n.root_latch
  /\ latch' = n.latch
  /\ th' = n.th
  /\ failed' = n.failed

\* BufferPoolManager(P); the tree's fields are not constructed yet
PoolConstructed(P) ==
  [pages_ |-> [f \in 0..(P - 1) |-> NewFrame],
   page_table_ |-> << >>,
   free_list_ |-> [i \in 1..P |-> i - 1],
   list_ |-> << >>,
   disk |-> << >>,
   hash_ |-> [f \in 0..(P - 1) |-> ZeroData],
   next_page_id_ |-> 0,
   root_page_id_ |-> INVALID_PAGE_ID,
   leaf_max_size_ |-> 0,
   internal_max_size_ |-> 0,
   root_latch |-> FreeLatch,
   latch |-> [f \in 0..(P - 1) |-> FreeLatch],
   th |-> [t \in Threads |-> IdleThread],
   failed |-> "", rv |-> 0, rvid |-> 0]

\* BufferPoolManager(P), then the header page (page 0) is created
\* and kept pinned, then BPlusTree(name, bpm, comparator, L, M)
Constructed(L, M, P) ==
  NewPageImpl([PoolConstructed(P) EXCEPT !.leaf_max_size_ = L - 1,
                                         !.internal_max_size_ = M])

StartsAs(n) ==
  /\ pages_ = n.pages_
  /\ page_table_ = n.page_table_
  /\ free_list_ = n.free_list_
  /\ list_ = n.list_
  /\ disk = n.disk
  /\ hash_ = n.hash_
  /\ next_page_id_ = n.next_page_id_
  /\ root_page_id_ = n.root_page_id_
  /\ leaf_max_size_ = n.leaf_max_size_
  /\ internal_max_size_ = n.internal_max_size_
  /\ root_latch = n.root_latch
  /\ latch = n.latch
  /\ th = n.th
  /\ failed = n.failed

(* ------------------- one thread, one call at a time ------------------- *)
\* the disk manager hands out no more pages than the pool has frames
InBounds(n) == n.next_page_id_ <= Cardinality(DOMAIN n.pages_)

\* with no other call in progress, a thread that waits for a latch waits forever
SeqEnd(v, t) ==
  Then(v, LAMBDA n : IF Ok(n) /\ ~Returned(n, t) THEN Fail(n, "waits forever for a latch")
                     ELSE n)

\* thread t makes a call and runs it to its return while no other call is in progress
SeqCall(t, called) ==
  /\ Ok(S)
  /\ \A u \in Threads : T(S, u).pc = "idle"
  /\ \E n \in {SeqEnd(RunSeq(called, t), t)} : InBounds(n) /\ Becomes(n)
  /\ UNCHANGED callers

Insert(k, v) == SeqCall(1, CallInsert(S, 1, k, v))
Remove(k) == SeqCall(1, CallRemove(S, 1, k))
GetValue(k, txn) == SeqCall(1, CallGetValue(S, 1, k, txn))
\* a scan: it = Begin(k); while (!it.isEnd()) ++it; the iterator stays alive afterwards
Scan(k) == SeqCall(2, CallBegin(S, 2, k))

DoInsert == \E k \in Keys : \E v \in ValuesOf(k) : Insert(k, v)
DoRemove == \E k \in Keys : Remove(k)
DoGetValue == \E k \in Keys : \E txn \in BOOLEAN : GetValue(k, txn)
DoScan == \E k \in Keys : Scan(k)

\* the caller has looked at what the call returned; the call's locals are gone
Forget(s, t) ==
  [s EXCEPT !.th[t] = [IdleThread EXCEPT !.page_set = s.th[t].page_set,
                                         !.deleted_set = s.th[t].deleted_set,
                                         !.rootLockedCnt = s.th[t].rootLockedCnt]]

Return == Ok(S) /\ T(S, 1).pc = "done" /\ Becomes(Forget(S, 1)) /\ UNCHANGED callers

\* the calls a caller makes
InsertCall(k) == [op |-> "Insert", key |-> k, value |-> 10 * k + 1]
RemoveCall(k) == [op |-> "Remove", key |-> k, value |-> 0]
GetValueCall(k) == [op |-> "GetValue", key |-> k, value |-> 0]
BeginCall(k) == [op |-> "Begin", key |-> k, value |-> 0]

\* the calls Insert(keys[1]), Insert(keys[2]), ...
RECURSIVE Inserts(_)
Inserts(keys) ==
  IF keys = <<>> THEN <<>> ELSE <<InsertCall(keys[1])>> \o Inserts(Tail(keys))
RECURSIVE Removes(_)
Removes(keys) ==
  IF keys = <<>> THEN <<>> ELSE <<RemoveCall(keys[1])>> \o Removes(Tail(keys))

Started(s, t, c) ==
  CASE c.op = "Insert" -> CallInsert(s, t, c.key, c.value)
    [] c.op = "Remove" -> CallRemove(s, t, c.key)
    [] c.op = "GetValue" -> CallGetValue(s, t, c.key, TRUE)
    [] c.op = "Begin" -> CallBegin(s, t, c.key)

RECURSIVE CallAll(_, _, _)
CallAll(s, calls, i) ==
  IF i > Len(calls) THEN s
  ELSE Then(Started(s, 1, calls[i]), LAMBDA c :
       Then(Forget(SeqEnd(RunSeq(c, 1), 1), 1), LAMBDA n : CallAll(n, calls, i + 1)))

Prepared(L, M, P, calls) == CallAll(Constructed(L, M, P), calls, 1)

\* a tree grown by descending inserts of NumKeys + 1 keys above NumKeys: a
\* root with three leaves, in a pool with room for the pages of later splits
GrownKeys == [i \in 1..(NumKeys + 1) |-> 2 * NumKeys + 2 - i]
GrownPoolSize == 2 * PoolSize + 2

NoProgram ==
  /\ prog = [t \in Threads |-> <<>>]
  /\ rets = [t \in Threads |-> <<>>]
  /\ snap = [t \in Threads |-> {}]

\* a tree of two leaves with room for the keys 3..NumKeys between the keys of
\* the leaf that the split created
WideKeys == <<1, 2, 2 * NumKeys>>

\* the tree as constructed, or the grown tree, or the wide tree
Init ==
  /\ \E L \in LeafMaxSizes, M \in InternalMaxSizes :
       \/ StartsAs(Constructed(L, M, PoolSize)) /\ prep = <<>>
       \/ StartsAs(Prepared(L, M, GrownPoolSize, Inserts(GrownKeys))) /\ prep = Inserts(GrownKeys)
       \/ StartsAs(Prepared(L, M, PoolSize, Inserts(WideKeys))) /\ prep = Inserts(WideKeys)
  /\ NoProgram

Next == DoInsert \/ DoRemove \/ DoGetValue \/ DoScan \/ Return

Spec == Init /\ [][Next]_vars

\* the same caller on a tree whose pool is too small for the pages it needs:
\* a pool of one frame holds the header page only, one of two frames has no
\* room for the page of a split, one of three none for a new root
InitTight ==
  /\ \E L \in LeafMaxSizes, M \in InternalMaxSizes, P \in 1..MaxPages :
       StartsAs(Constructed(L, M, P))
  /\ prep = <<>>
  /\ NoProgram

SpecTight == InitTight /\ [][Next]_vars

\* the same caller on a tree grown by descending inserts of the keys
\* NumKeys + 1 down to 1: a root with three leaves whose keys the caller removes
LowKeys == [i \in 1..(NumKeys + 1) |-> NumKeys + 2 - i]

InitLow ==
  /\ \E L \in LeafMaxSizes, M \in InternalMaxSizes :
       StartsAs(Prepared(L, M, GrownPoolSize, Inserts(LowKeys)))
  /\ prep = Inserts(LowKeys)
  /\ NoProgram

SpecLow == InitLow /\ [][Next]_vars

(* ------------------------ what a caller observes ---------------------- *)
\* the call a quiescent tree would answer: GetValue(k, &result) with an
\* empty result vector; <<returned, result>>, or "fatal" if the process ends
GetValueOf(s, k) ==
  Then(SeqEnd(RunSeq(CallGetValue(Forget(s, 1), 1, k, TRUE), 1), 1), LAMBDA n :
    IF Ok(n) THEN <<T(n, 1).ret, T(n, 1).result>> ELSE <<"fatal", <<>>>>)

Present(s, k) == GetValueOf(s, k)[1] = "true"

\* it = Begin(k0); while (!it.isEnd()) { keys.push_back((*it).first); ++it; }
ScanOf(s, k0) ==
  Then(SeqEnd(RunSeq(CallBegin(Forget(s, 2), 2, k0), 2), 2), LAMBDA n :
    IF Ok(n) THEN <<"void", T(n, 2).result>> ELSE <<"fatal", <<>>>>)

\* the image of page pid: the frame that holds it, else what the disk has
PageImage(s, pid) ==
  IF pid \in DOMAIN s.page_table_ /\ s.pages_[s.page_table_[pid]].page_id_ = pid
  THEN s.pages_[s.page_table_[pid]].data
  ELSE DiskRead(s, pid)

\* the keys stored in the leaves below page pid (h bounds the height walked)
RECURSIVE KeysUnder(_, _, _)
KeysUnder(s, pid, h) ==
  IF pid = INVALID_PAGE_ID \/ h = 0 THEN {}
  ELSE Then(PageImage(s, pid), LAMBDA d :
       IF d.page_type_ = "LEAF_PAGE"
       THEN {d.array[i][1] : i \in {j \in Slots : j < d.size_}}
       ELSE IF d.page_type_ = "INTERNAL_PAGE"
       THEN UNION {KeysUnder(s, d.array[i][2], h - 1) : i \in {j \in Slots : j < d.size_}}
       ELSE {})

TreeKeys(s) == KeysUnder(s, s.root_page_id_, MaxPages)

\* the pages of the tree with their images
RECURSIVE PagesUnder(_, _, _)
PagesUnder(s, pid, h) ==
  IF pid = INVALID_PAGE_ID \/ h = 0 THEN {}
  ELSE Then(PageImage(s, pid), LAMBDA d :
       {<<pid, d>>} \cup
       (IF d.page_type_ = "INTERNAL_PAGE"
        THEN UNION {PagesUnder(s, d.array[i][2], h - 1) : i \in {j \in Slots : j < d.size_}}
        ELSE {}))

TreePages(s) == PagesUnder(s, s.root_page_id_, MaxPages)

StrictlyIncreasing(seq) == \A i \in 1..(Len(seq) - 1) : seq[i] < seq[i + 1]
Range(seq) == {seq[i] : i \in 1..Len(seq)}

\* thread t, idle before the step, has made the call op in it
Called(t, op) == th[t].pc = "idle" /\ th'[t].op = op
\* ... and the call has returned
Returns(t, op) == Called(t, op) /\ th'[t].pc = "done" /\ failed' = ""

(* ----------------------- two threads, interleaved --------------------- *)
\* Each thread makes the calls of its program in turn.  A thread's steps
\* between two latch acquisitions run without interruption: every buffer
\* pool call is serialised by the pool's mutex and the pages a thread works
\* on in between are the ones it holds latched.
\* the calls a thread that works on the keys a and b may make
ProgramsOf(a, b) ==
  {<<InsertCall(a)>>, <<InsertCall(b)>>, <<InsertCall(a), InsertCall(b)>>,
   <<InsertCall(b), GetValueCall(b)>>, <<RemoveCall(a)>>, <<RemoveCall(b)>>,
   <<GetValueCall(a)>>}

\* the calls made, one after the other, before the threads start
Preparations ==
  {Inserts(<<>>), Inserts(<<1, 2>>), Inserts(<<1, 2, 3>>), Inserts(<<1, 2, 3, 4>>)}

\* a tree of height three: the root over two internal pages, one with
\* three leaves and one with two
DeepTree == Inserts(<<9, 8, 7, 6, 5, 4, 3, 2, 1>>) \o Removes(<<2, 9, 7>>)

\* thread 1 works on the keys 1 and 3, thread 2 on the keys 2 and 4
WorkScenarios ==
  {[prep |-> p, prog |-> <<p1, p2>>] :
     p \in Preparations, p1 \in ProgramsOf(1, 3), p2 \in ProgramsOf(2, 4)}

\* thread 2 scans from k0 while thread 1 inserts keys above every key stored
ScanScenarios ==
  {[prep |-> sc[1], prog |-> <<sc[2], <<BeginCall(k0)>>>>] :
     sc \in {<<Inserts(<<1, 2>>), <<InsertCall(3)>> >>,
             <<Inserts(<<1, 2>>), <<InsertCall(3), InsertCall(4)>> >>,
             <<Inserts(<<1, 2, 3>>), <<InsertCall(4)>> >>,
             <<Inserts(<<1, 2, 3>>), <<InsertCall(4), InsertCall(5)>> >>,
             <<Inserts(<<1, 3, 4>>), <<InsertCall(5)>> >>},
     k0 \in Keys}

\* both threads remove a key from the tree of height three
DeepScenarios ==
  {[prep |-> DeepTree, prog |-> <<<<RemoveCall(k1)>>, <<RemoveCall(k2)>>>>] :
     k1 \in {1, 3, 4}, k2 \in {5, 6, 8}}

Scenarios == WorkScenarios \cup ScanScenarios \cup DeepScenarios

\* the keys the calls before the start have left in the tree
RECURSIVE KeysLeft(_)
KeysLeft(calls) ==
  IF calls = <<>> THEN {}
  ELSE IF calls[Len(calls)].op = "Insert"
       THEN KeysLeft(SubSeq(calls, 1, Len(calls) - 1)) \cup {calls[Len(calls)].key}
       ELSE KeysLeft(SubSeq(calls, 1, Len(calls) - 1)) \ {calls[Len(calls)].key}

Running(s, t) == T(s, t).pc \notin {"idle", "done"}

\* the keys whose Insert has returned: those stored, but for the keys
\* another thread is about to insert
StoredKeys(s, t) ==
  TreeKeys(s) \ {T(s, u).key : u \in {v \in Threads \ {t} :
                                        Running(s, v) /\ T(s, v).op = "Insert"}}

\* thread t makes the next call of its program
Call(t) ==
  /\ Ok(S)
  /\ T(S, t).pc = "idle"
  /\ Len(rets[t]) < Len(prog[t])
  /\ \E c \in {prog[t][Len(rets[t]) + 1]} :
       /\ Becomes(Started(S, t, c))
       /\ snap' = IF c.op = "Begin" THEN [snap EXCEPT ![t] = StoredKeys(S, t)] ELSE snap
  /\ UNCHANGED <<prep, prog, rets>>

\* thread t is granted the latch it waits for and runs to its next wait or to its return
Step(t) ==
  /\ Ok(S)
  /\ T(S, t).pc \in SchedPcs
  /\ Guard(S, t)
  /\ \E n \in {StepT(S, t)} : Becomes(n)
  /\ UNCHANGED callers

\* the call of thread t has returned to its caller
Ret(t) ==
  /\ Ok(S)
  /\ T(S, t).pc = "done"
  /\ Becomes(Forget(S, t))
  /\ rets' = [rets EXCEPT ![t] = Append(@, <<T(S, t).ret, T(S, t).result>>)]
  /\ UNCHANGED <<prep, prog, snap>>

InitPar ==
  \E sc \in Scenarios : \E L \in LeafMaxSizes, M \in InternalMaxSizes :
    /\ StartsAs(Prepared(L, M, ParPoolSize, sc.prep))
    /\ prep = sc.prep
    /\ prog = [t \in Threads |-> sc.prog[t]]
    /\ rets = [t \in Threads |-> <<>>]
    /\ snap = [t \in Threads |-> {}]

NextPar == \E t \in Threads : Call(t) \/ Step(t) \/ Ret(t)

SpecPar == InitPar /\ [][NextPar]_vars

\* a thread removes the last keys of a small tree while the other thread
\* inserts or removes a key
LastKeyScenarios ==
  {[prep |-> p, prog |-> <<p1, p2>>] :
     p \in {Inserts(<<1>>), Inserts(<<1, 2>>)},
     p1 \in {<<RemoveCall(1)>>, <<RemoveCall(1), RemoveCall(2)>>},
     p2 \in {<<InsertCall(3)>>, <<InsertCall(1)>>, <<RemoveCall(2)>>, <<RemoveCall(3)>>,
             <<InsertCall(3), RemoveCall(3)>>}}

InitLastKey ==
  \E sc \in LastKeyScenarios : \E L \in LeafMaxSizes, M \in InternalMaxSizes :
    /\ StartsAs(Prepared(L, M, ParPoolSize, sc.prep))
    /\ prep = sc.prep
    /\ prog = [t \in Threads |-> sc.prog[t]]
    /\ rets = [t \in Threads |-> <<>>]
    /\ snap = [t \in Threads |-> {}]

SpecLastKey == InitLastKey /\ [][NextPar]_vars

(* ------------------- the buffer pool, called directly ----------------- *)
\* One caller calls the pool's operations in any order and writes into the
\* pages it has pinned.  th[1] records the call that has just returned: its
\* name (op), the page id passed (key), the frame it worked on (page) and what
\* it returned (ret), until the caller has looked at it (Return).  The caller
\* passes page ids that NewPage has handed out.
PageIds == 0..(PoolPages - 1)
\* the contents a caller writes into a page: c stands for the page's bytes
Image(c) == [ZeroData EXCEPT !.size_ = c]
Contents == {1}

FrameOf(s, page_id) ==
  IF page_id \in DOMAIN s.page_table_ /\ s.pages_[s.page_table_[page_id]].page_id_ = page_id
  THEN s.page_table_[page_id] ELSE nullptr

LastCall(op, page_id, frame, ret) ==
  [IdleThread EXCEPT !.pc = "done", !.op = op, !.key = page_id, !.page = frame, !.ret = ret]

\* the call put another page into a frame that held a page
Evicts(n, frame) ==
  /\ frame # nullptr
  /\ pages_[frame].page_id_ # INVALID_PAGE_ID
  /\ n.pages_[frame].page_id_ \notin {INVALID_PAGE_ID, pages_[frame].page_id_}

PoolCall(n, op, page_id, frame, ret) ==
  /\ failed = ""
  /\ th[1].pc = "idle"
  /\ Becomes([n EXCEPT !.th[1] = [LastCall(op, page_id, frame, ret) EXCEPT
                                    !.did = IF Evicts(n, frame) THEN {"evict"} ELSE {}]])
  /\ UNCHANGED callers

AsBool(b) == IF b THEN "true" ELSE "false"
AsPage(f) == IF f = nullptr THEN "nullptr" ELSE "page"

PoolFetch ==
  \E page_id \in PageIds :
    /\ page_id < next_page_id_
    /\ \A f \in DOMAIN pages_ : pages_[f].page_id_ = page_id => pages_[f].pin_count_ < MaxPins
    /\ \E n \in {FetchPageImpl(S, page_id)} : PoolCall(n, "FetchPage", page_id, n.rv, AsPage(n.rv))

PoolNew ==
  /\ next_page_id_ < PoolPages
  /\ \E n \in {NewPageImpl(S)} :
       PoolCall(n, "NewPage", IF n.rv = nullptr THEN INVALID_PAGE_ID ELSE n.rvid, n.rv, AsPage(n.rv))

PoolUnpin ==
  \E page_id \in PageIds, is_dirty \in BOOLEAN :
    /\ page_id < next_page_id_
    /\ \E n \in {UnpinPageImpl(S, page_id, is_dirty)} :
         PoolCall(n, IF is_dirty THEN "UnpinPage dirty" ELSE "UnpinPage", page_id,
                  FrameOf(S, page_id), AsBool(n.rv))

PoolFlush ==
  \E page_id \in PageIds :
    /\ page_id < next_page_id_
    /\ \E n \in {FlushPageImpl(S, page_id)} :
         PoolCall(n, "FlushPage", page_id, FrameOf(S, page_id), AsBool(n.rv))

PoolFlushAll ==
  \E n \in {FlushAllPagesImpl(S)} : PoolCall(n, "FlushAllPages", INVALID_PAGE_ID, nullptr, "void")

PoolDelete ==
  \E page_id \in PageIds :
    /\ page_id < next_page_id_
    /\ \E n \in {DeletePageImpl(S, page_id)} :
         PoolCall(n, "DeletePage", page_id, FrameOf(S, page_id), AsBool(n.rv))

\* the caller writes into a page it holds pinned
PoolWrite ==
  \E page_id \in PageIds, c \in Contents :
    /\ FrameOf(S, page_id) # nullptr
    /\ pages_[FrameOf(S, page_id)].pin_count_ > 0
    /\ PoolCall([S EXCEPT !.pages_[FrameOf(S, page_id)].data = Image(c)],
                "write", page_id, FrameOf(S, page_id), "void")

InitPool == StartsAs(PoolConstructed(PoolFrames)) /\ prep = <<>> /\ NoProgram

NextPool ==
  \/ PoolFetch \/ PoolNew \/ PoolUnpin \/ PoolFlush \/ PoolFlushAll \/ PoolDelete \/ PoolWrite
  \/ Return

SpecPool == InitPool /\ [][NextPool]_vars

\* The same caller with one frame more, once it has created page 0 and
\* written into it: from then on it fetches, creates, unpins and deletes pages
\* and only reads them.
Filled(s) == [s EXCEPT !.pages_[s.rv].data = Image(1)]

InitPins ==
  /\ StartsAs(Filled(NewPageImpl(PoolConstructed(PoolFrames + 1))))
  /\ prep = <<>>
  /\ NoProgram

NextPins == PoolFetch \/ PoolNew \/ PoolUnpin \/ PoolDelete \/ Return

SpecPins == InitPins /\ [][NextPins]_vars

(* --------------------- the replacer, called directly ------------------ *)
\* One caller calls Unpin, Pin and Victim of an LRUReplacer in any order.
\* prep is the sequence of the calls made so far, th[1] the call that has just
\* returned: its name (op), the frame passed or written to *frame_id (key) and
\* what it returned (ret).
LruFrames == 3
MaxCalls == 5
FrameIds == 0..(LruFrames - 1)

LruCalled(op, f) == [op |-> op, key |-> f, value |-> 0]

LruCall(list, op, f, ret) ==
  /\ failed = ""
  /\ th[1].pc = "idle"
  /\ Len(prep) < MaxCalls
  /\ Becomes([S EXCEPT !.list_ = list, !.th[1] = LastCall(op, f, nullptr, ret)])
  /\ prep' = Append(prep, LruCalled(op, f))
  /\ UNCHANGED <<prog, rets, snap>>

LruUnpin == \E f \in FrameIds : LruCall(LRUUnpin(list_, f), "Unpin", f, "void")

LruPin == \E f \in FrameIds : LruCall(LRUPin(list_, f), "Pin", f, "void")

LruVictim ==
  \E v \in {LRUVictim(list_)} : LruCall(v[3], "Victim", v[2], AsBool(v[1]))

InitLRU == StartsAs(PoolConstructed(LruFrames)) /\ prep = <<>> /\ NoProgram

NextLRU == LruUnpin \/ LruPin \/ LruVictim \/ Return

SpecLRU == InitLRU /\ [][NextLRU]_vars

(* ------------------- the invariants of tree and pool ------------------ *)
\* the keys met from the leftmost leaf along next_page_id (n bounds the walk)
RECURSIVE LeftmostLeaf(_, _, _)
LeftmostLeaf(s, pid, h) ==
  IF pid = INVALID_PAGE_ID \/ h = 0 THEN INVALID_PAGE_ID
  ELSE Then(PageImage(s, pid), LAMBDA d :
       IF d.page_type_ = "INTERNAL_PAGE" THEN LeftmostLeaf(s, d.array[0][2], h - 1)
       ELSE pid)

RECURSIVE ChainFrom(_, _, _)
ChainFrom(s, pid, n) ==
  IF pid = INVALID_PAGE_ID \/ n = 0 THEN <<>>
  ELSE Then(PageImage(s, pid), LAMBDA d :
       [i \in 1..d.size_ |-> d.array[i - 1][1]] \o ChainFrom(s, d.next_page_id_, n - 1))

ChainKeys(s) == ChainFrom(s, LeftmostLeaf(s, s.root_page_id_, MaxPages), ParPoolSize)

\* 3: the leaf chain is strictly increasing
OrderingOk(s) == StrictlyIncreasing(ChainKeys(s))

\* 4: sizes, for the configured leaf_max_size L and internal_max_size M
SizesOk(s) ==
  LET L == s.leaf_max_size_ + 1
      M == s.internal_max_size_
  IN \A x \in TreePages(s) :
       IF x[1] = s.root_page_id_
       THEN x[2].size_ >= (IF IsLeafPage(x[2]) THEN 1 ELSE 2)
       ELSE IF IsLeafPage(x[2])
       THEN x[2].size_ >= CeilHalf(L) /\ x[2].size_ <= L
       ELSE x[2].size_ >= CeilHalf(M) /\ x[2].size_ <= M

\* 5: every child names its parent, the root names none
ParentsOk(s) ==
  \A x \in TreePages(s) :
    /\ x[1] = s.root_page_id_ => x[2].parent_page_id_ = INVALID_PAGE_ID
    /\ x[2].page_type_ = "INTERNAL_PAGE" =>
         \A i \in {j \in Slots : j < x[2].size_} :
           PageImage(s, x[2].array[i][2]).parent_page_id_ = x[1]

\* 6: the keys below child i are >= key i, the keys below child i - 1 are < key i
SeparatorsOk(s) ==
  \A x \in TreePages(s) :
    x[2].page_type_ = "INTERNAL_PAGE" =>
      \A i \in {j \in Slots : j >= 1 /\ j < x[2].size_} :
        /\ \A k \in KeysUnder(s, x[2].array[i][2], MaxPages) : k >= x[2].array[i][1]
        /\ \A k \in KeysUnder(s, x[2].array[i - 1][2], MaxPages) : k < x[2].array[i][1]

\* 1, 2: the page table is the inverse of the frames' page ids; every frame
\* is free, or tracked by the replacer with no pin, or pinned
PoolOk(s) ==
  /\ \A f \in DOMAIN s.pages_ :
       s.pages_[f].page_id_ # INVALID_PAGE_ID =>
         /\ s.pages_[f].page_id_ \in DOMAIN s.page_table_
         /\ s.page_table_[s.pages_[f].page_id_] = f
  /\ \A pid \in DOMAIN s.page_table_ : s.pages_[s.page_table_[pid]].page_id_ = pid
  /\ \A f \in DOMAIN s.pages_ :
       LET free == InSeq(s.free_list_, f)
           tracked == InSeq(s.list_, f)
           pinned == s.pages_[f].pin_count_ > 0
       IN /\ (free /\ ~tracked /\ ~pinned) \/ (~free /\ tracked /\ ~pinned)
             \/ (~free /\ ~tracked /\ pinned)
          /\ free => s.pages_[f].page_id_ = INVALID_PAGE_ID

(* ------------------------------ claims -------------------------------- *)
\* C1: whenever Insert(k, v) of a key that GetValue did not find returns
\* true, the GetValue(k) called next returns true with exactly <<v>>, and every
\* key GetValue found before the Insert is found afterwards with the same value.
C1_Step ==
  \A n \in {SP} :
    (Returns(1, "Insert") /\ T(n, 1).ret = "true" /\ ~Present(S, T(n, 1).key)) =>
      /\ GetValueOf(n, T(n, 1).key) = <<"true", <<T(n, 1).value>>>>
      /\ \A k2 \in AllKeys : Present(S, k2) => GetValueOf(n, k2) = GetValueOf(S, k2)

C1_InsertThenGetValue == [][C1_Step]_vars

\* an Insert whose leaf split made the root, an internal page, split and the
\* tree grow a new root has returned true, and every key stored is found
C1_Witness ==
  /\ failed = "" /\ th[1].pc = "done" /\ th[1].op = "Insert" /\ th[1].ret = "true"
  /\ {"split leaf", "split internal", "new root"} \subseteq th[1].did
  /\ Cardinality(TreeKeys(S)) > NumKeys
  /\ \A k \in TreeKeys(S) : Present(S, k)

\* C2: whenever Remove(k) of a key that GetValue found returns, the
\* GetValue(k) called next returns false and its result vector stays empty;
\* a Remove that ends the process does not return.
C2_Step ==
  \A n \in {SP} :
    (Called(1, "Remove") /\ Present(S, T(n, 1).key)) =>
      /\ Returns(1, "Remove")
      /\ GetValueOf(n, T(n, 1).key) = <<"false", <<>>>>

C2_RemoveThenGetValue == [][C2_Step]_vars

\* a Remove(k) has returned and GetValue(k) still returns true
C2_Witness ==
  /\ failed = "" /\ th[1].pc = "done" /\ th[1].op = "Remove"
  /\ Present(S, th[1].key)

Without(seq, k) == SelectSeq(seq, LAMBDA x : x # k)

\* C3: Remove(k) returns, and afterwards every other key that GetValue
\* found is found with the same value, no key that GetValue did not find is
\* found, and the scan of the leaf chain from the smallest key yields the
\* previous scan without k.
C3_Step ==
  \A n \in {SP} :
    Called(1, "Remove") =>
      /\ Returns(1, "Remove")
      /\ \A k2 \in AllKeys \ {T(n, 1).key} :
           IF Present(S, k2) THEN GetValueOf(n, k2) = GetValueOf(S, k2)
           ELSE ~Present(n, k2)
      /\ ScanOf(n, 1) = <<"void", Without(ScanOf(S, 1)[2], T(n, 1).key)>>

C3_RemoveOnlyK == [][C3_Step]_vars

\* a Remove has returned after a redistribution and the scan of the leaf
\* chain yields a key twice
C3_Witness ==
  /\ failed = "" /\ th[1].pc = "done" /\ th[1].op = "Remove"
  /\ "redistribute" \in th[1].did
  /\ ScanOf(S, 1)[1] = "void" /\ ~StrictlyIncreasing(ScanOf(S, 1)[2])

\* C4: Insert(k, v') of a key that GetValue finds returns false; the root
\* page id, the pages of the tree and every page's image are what they were,
\* and GetValue(k) answers as before.
C4_Step ==
  \A n \in {SP} :
    (Called(1, "Insert") /\ Present(S, T(n, 1).key)) =>
      /\ Returns(1, "Insert")
      /\ T(n, 1).ret = "false"
      /\ n.root_page_id_ = root_page_id_
      /\ TreePages(n) = TreePages(S)
      /\ GetValueOf(n, T(n, 1).key) = GetValueOf(S, T(n, 1).key)

C4_DuplicateInsert == [][C4_Step]_vars

\* Insert(1, v') has returned false where key 1 is stored with the other value
C4_Witness ==
  /\ failed = "" /\ th[1].pc = "done" /\ th[1].op = "Insert" /\ th[1].ret = "false"
  /\ th[1].key = 1
  /\ GetValueOf(S, 1)[1] = "true" /\ GetValueOf(S, 1)[2] # <<th[1].value>>

\* C5: GetValue(k) of a key stored in no leaf of the tree (the empty tree
\* included) returns false, leaves the result vector empty and does not end
\* the process.
C5_Step ==
  \A n \in {SP} :
    (Called(1, "GetValue") /\ T(n, 1).key \notin TreeKeys(S)) =>
      /\ Returns(1, "GetValue")
      /\ T(n, 1).ret = "false"
      /\ T(n, 1).result = <<>>

C5_GetValueAbsent == [][C5_Step]_vars

\* GetValue of an absent key on a tree that is not empty has returned false
\* with a value in the result vector
C5_Witness ==
  /\ failed = "" /\ th[1].pc = "done" /\ th[1].op = "GetValue" /\ th[1].ret = "false"
  /\ th[1].result # <<>>

\* C6: the scan from Begin(k0) ends, and the keys it yields are strictly
\* increasing, all >= k0, and exactly the keys >= k0 stored in the tree.
C6_Step ==
  \A n \in {SP} :
    Called(2, "Begin") =>
      /\ Returns(2, "Begin")
      /\ StrictlyIncreasing(T(n, 2).result)
      /\ Range(T(n, 2).result) = {k \in TreeKeys(S) : k >= T(n, 2).key}

C6_ScanFrom == [][C6_Step]_vars

\* a scan from k0 has ended without yielding anything although the leaves
\* store a key >= k0 and are in order: the descent for k0 ended in a leaf
\* whose keys are all below k0
C6_Witness ==
  /\ failed = "" /\ th[2].pc = "done" /\ th[2].op = "Begin"
  /\ th[2].result = <<>>
  /\ \E k \in TreeKeys(S) : k >= th[2].key
  /\ StrictlyIncreasing(ScanOf(S, 1)[2]) /\ Range(ScanOf(S, 1)[2]) = TreeKeys(S)

(* ------------------------- claims, two threads ------------------------ *)
CallsOf(t) == {prog[t][i] : i \in 1..Len(prog[t])}
AllCalls == UNION {CallsOf(t) : t \in Threads}

\* both threads only insert, keys that were not inserted before they start
InsertsOnly ==
  /\ \A t \in Threads : prog[t] # <<>>
  /\ \A c \in AllCalls : c.op = "Insert" /\ c.key \notin KeysLeft(prep)

\* every call of every program has returned
AllReturned ==
  \A t \in Threads : th[t].pc = "idle" /\ Len(rets[t]) = Len(prog[t])

\* every key inserted, before or by the threads, is found with its value
AllRetrievable ==
  \A k \in KeysLeft(prep) \cup {c.key : c \in AllCalls} :
    GetValueOf(S, k) = <<"true", <<10 * k + 1>>>>

TreeOk == OrderingOk(S) /\ SizesOk(S) /\ ParentsOk(S) /\ SeparatorsOk(S)

\* C7: while two threads insert disjoint sets of new keys the process does
\* not end, and once both have finished every inserted key is found with its
\* value and the invariants of the tree (ordering, sizes, parent pointers,
\* separators) and of the pool hold.
C7_ConcurrentInserts ==
  InsertsOnly => /\ failed = ""
                 /\ AllReturned => AllRetrievable /\ TreeOk /\ PoolOk(S)

\* the same without the invariant on sizes
C7_ButSizes ==
  InsertsOnly => /\ failed = ""
                 /\ AllReturned => /\ AllRetrievable /\ PoolOk(S)
                                   /\ OrderingOk(S) /\ ParentsOk(S) /\ SeparatorsOk(S)

\* two threads have finished their inserts, one of which split the root
\* leaf, and a leaf holds fewer than ceil(L/2) or more than L entries
C7_Witness ==
  /\ failed = "" /\ InsertsOnly /\ AllReturned /\ prep = <<>>
  /\ \A t \in Threads : Len(prog[t]) = 2
  /\ AllRetrievable
  /\ ~SizesOk(S)

\* the key k was inserted before thread t called GetValue(k): before the
\* threads started, or by the call thread t made just before
InsertedBefore(t, k) ==
  \/ k \in KeysLeft(prep)
  \/ /\ Len(rets[t]) >= 1
     /\ prog[t][Len(rets[t])] = InsertCall(k)
     /\ rets[t][Len(rets[t])][1] = "true"

\* C8: a GetValue(k) that started after Insert(k, v) had returned true, with
\* no Remove(k) in any program, returns true and exactly v, whatever the other
\* thread inserts or removes meanwhile.
C8_Linearizable ==
  \A t \in Threads :
    (/\ failed = "" /\ th[t].pc = "done" /\ th[t].op = "GetValue"
     /\ InsertedBefore(t, th[t].key)
     /\ RemoveCall(th[t].key) \notin AllCalls)
    => th[t].ret = "true" /\ th[t].result = <<10 * th[t].key + 1>>

\* the same where the other thread only inserts
C8_AmongInserts ==
  \A t \in Threads :
    (/\ failed = "" /\ th[t].pc = "done" /\ th[t].op = "GetValue"
     /\ InsertedBefore(t, th[t].key)
     /\ \A c \in AllCalls : c.op # "Remove")
    => th[t].ret = "true" /\ th[t].result = <<10 * th[t].key + 1>>

\* thread 2's GetValue(4) has returned false after its Insert(4) returned
\* true, while thread 1 removed key 1
C8_Witness ==
  /\ failed = "" /\ th[2].pc = "done" /\ th[2].op = "GetValue" /\ th[2].key = 4
  /\ th[2].ret = "false"
  /\ Len(rets[2]) = 1 /\ rets[2][1][1] = "true"
  /\ prog[1] = <<RemoveCall(1)>>

\* a thread that can take no step: it has nothing left to call, or the
\* latch it waits for is held
NoMove(t) ==
  \/ th[t].pc = "idle" /\ Len(rets[t]) = Len(prog[t])
  \/ th[t].pc \in SchedPcs /\ ~Guard(S, t)

\* some call has not returned and no thread can take a step
Deadlocked ==
  /\ failed = ""
  /\ \E t \in Threads : Running(S, t)
  /\ \A t \in Threads : NoMove(t)

NoScan == \A c \in AllCalls : c.op # "Begin"

\* C9: with threads that call Insert, Remove and GetValue and a pool that is
\* never exhausted, no state is reached in which a call has not returned
\* and every thread waits.
C9_NoDeadlock == NoScan => ~Deadlocked

\* two calls are in progress, each past its first latch, and one of them waits
C9_Witness ==
  /\ failed = "" /\ NoScan
  /\ \A t \in Threads : Running(S, t) /\ th[t].page_set # <<>>
  /\ \E t \in Threads : ~Guard(S, t)
  /\ \E t \in Threads : th[t].op = "Remove"

Scanning == prog[2] # <<>> /\ prog[2][1].op = "Begin"

\* the threads wait for each other
WaitForEachOther ==
  /\ failed = ""
  /\ \A t \in Threads : Running(S, t) /\ ~Guard(S, t)

\* C10: while thread 2 scans from k0 and thread 1 inserts keys above every
\* key stored, the process does not end, the threads do not wait for each
\* other, and the scan yields, in increasing order, every key >= k0 that was
\* stored when Begin was called.
C10_ScanDuringInserts ==
  Scanning =>
    /\ failed = ""
    /\ ~WaitForEachOther
    /\ (th[2].pc = "done" /\ th[2].op = "Begin") =>
         /\ StrictlyIncreasing(th[2].result)
         /\ {k \in snap[2] : k >= th[2].key} \subseteq Range(th[2].result)

\* the same for scans that start from a key that is stored
C10_FromStoredKey ==
  (Scanning /\ prog[2][1].key \in KeysLeft(prep)) =>
    /\ failed = ""
    /\ ~WaitForEachOther
    /\ (th[2].pc = "done" /\ th[2].op = "Begin") =>
         /\ StrictlyIncreasing(th[2].result)
         /\ {k \in snap[2] : k >= th[2].key} \subseteq Range(th[2].result)

\* a scan that began while the insert was in progress has ended without the
\* keys 3 and 4, stored before it began
C10_Witness ==
  /\ failed = "" /\ th[2].pc = "done" /\ th[2].op = "Begin" /\ th[2].key = 2
  /\ {3, 4} \subseteq snap[2]
  /\ th[2].result = <<>>
  /\ Running(S, 1)

\* the frames that hold no page and wait in the free list
FreeFrames(s) ==
  {f \in DOMAIN s.pages_ :
     InSeq(s.free_list_, f) /\ s.pages_[f].page_id_ = INVALID_PAGE_ID
     /\ s.pages_[f].pin_count_ = 0}

\* the frames that hold a page of the index (any page but the header page)
IndexFrames(s) ==
  {f \in DOMAIN s.pages_ : s.pages_[f].page_id_ \notin {INVALID_PAGE_ID, HEADER_PAGE_ID}}

\* C11: Remove(k) of a stored key returns; when k was the only key stored,
\* the tree is empty afterwards (IsEmpty(), root_page_id_ = INVALID_PAGE_ID),
\* no frame holds a page of the tree any more, and every frame but the
\* header page's is in the free list, unpinned.
C11_Step ==
  \A n \in {SP} :
    (Called(1, "Remove") /\ T(n, 1).key \in TreeKeys(S)) =>
      /\ Returns(1, "Remove")
      /\ TreeKeys(S) = {T(n, 1).key} =>
           /\ IsEmpty(n)
           /\ n.root_page_id_ = INVALID_PAGE_ID
           /\ IndexFrames(n) = {}
           /\ \A f \in DOMAIN n.pages_ :
                n.pages_[f].page_id_ # HEADER_PAGE_ID => f \in FreeFrames(n)

C11_InsertThenRemoveAll == [][C11_Step]_vars

\* the leaves of the tree, by page id
TreeLeaves(s) == {x[1] : x \in {y \in TreePages(s) : IsLeafPage(y[2])}}

\* the page ids met from the leftmost leaf along next_page_id (n bounds the walk)
RECURSIVE ChainIdsFrom(_, _, _)
ChainIdsFrom(s, pid, n) ==
  IF pid = INVALID_PAGE_ID \/ n = 0 THEN <<>>
  ELSE <<pid>> \o ChainIdsFrom(s, PageImage(s, pid).next_page_id_, n - 1)

ChainIds(s) == ChainIdsFrom(s, LeftmostLeaf(s, s.root_page_id_, MaxPages), ParPoolSize)

\* C12: after an Insert or a Remove has returned, the walk from the leftmost
\* leaf along next_page_id meets every leaf of the tree, each once, and the
\* keys met are strictly increasing.
C12_Step ==
  \A n \in {SP} :
    (Returns(1, "Insert") \/ Returns(1, "Remove")) =>
      /\ Range(ChainIds(n)) = TreeLeaves(n)
      /\ Len(ChainIds(n)) = Cardinality(TreeLeaves(n))
      /\ StrictlyIncreasing(ChainKeys(n))

C12_LeafChain == [][C12_Step]_vars

\* C13: after an Insert has returned, no leaf of the tree holds more entries
\* than the leaf_max_size L the tree was constructed with.
C13_Step ==
  \A n \in {SP} :
    Returns(1, "Insert") =>
      \A x \in TreePages(n) : IsLeafPage(x[2]) => x[2].size_ <= n.leaf_max_size_ + 1

C13_LeafAtMostL == [][C13_Step]_vars

\* C14: after an Insert or a Remove has returned, the root has at least 1
\* entry if it is a leaf and 2 if it is internal, every other leaf has between
\* ceil(L / 2) and L entries and every other internal page between
\* ceil(M / 2) and M, for the L and M the tree was constructed with.
C14_Step ==
  \A n \in {SP} :
    (Returns(1, "Insert") \/ Returns(1, "Remove")) => SizesOk(n)

C14_Sizes == [][C14_Step]_vars

\* C15: after an Insert or a Remove has returned, every page stored in a
\* child slot i < size of an internal page p names p as its parent, and the
\* root names no parent.
C15_Step ==
  \A n \in {SP} :
    (Returns(1, "Insert") \/ Returns(1, "Remove")) => ParentsOk(n)

C15_ParentPointers == [][C15_Step]_vars

\* C16: after an Insert or a Remove has returned, for every internal page
\* and every slot i >= 1 the keys below child i are >= key i and the keys
\* below child i - 1 are < key i.
C16_Step ==
  \A n \in {SP} :
    (Returns(1, "Insert") \/ Returns(1, "Remove")) => SeparatorsOk(n)

C16_Separators == [][C16_Step]_vars

\* C17: in every state no frame is both in the replacer's list and pinned,
\* and in every step a frame that is pinned before the step holds the same
\* page after it: FetchPage and NewPage take no pinned frame as their victim.
C17_Step ==
  \A f \in DOMAIN pages_ :
    /\ ~(InSeq(list_, f) /\ pages_[f].pin_count_ > 0)
    /\ ~(InSeq(list_', f) /\ pages_'[f].pin_count_ > 0)
    /\ pages_[f].pin_count_ > 0 =>
         /\ pages_'[f].page_id_ = pages_[f].page_id_
         /\ FrameOf(SP, pages_[f].page_id_) = f

C17_PinnedNotEvicted == [][C17_Step]_vars

\* FetchPage has taken the replacer's victim: the frame holds the page
\* fetched, is pinned and is not in the replacer's list
C17_Witness ==
  /\ th[1].pc = "done" /\ th[1].op = "FetchPage" /\ th[1].ret = "page"
  /\ "evict" \in th[1].did
  /\ pages_[th[1].page].pin_count_ > 0
  /\ ~InSeq(list_, th[1].page)

\* how often frame f is listed in the free list
TimesFree(f) == Cardinality({i \in DOMAIN free_list_ : free_list_[i] = f})

\* C19: every frame is in exactly one of three states: listed once in the
\* free list, holding no page and unpinned; or holding a page with
\* pin_count > 0, in neither the free list nor the replacer; or holding a page
\* with pin_count = 0 and tracked by the replacer.
C19_FramesPartitioned ==
  \A f \in DOMAIN pages_ :
    LET free == TimesFree(f) > 0
        tracked == InSeq(list_, f)
        resident == pages_[f].page_id_ # INVALID_PAGE_ID
        pinned == pages_[f].pin_count_ > 0
    IN \/ TimesFree(f) = 1 /\ ~resident /\ ~pinned /\ ~tracked
       \/ ~free /\ ~tracked /\ resident /\ pinned
       \/ ~free /\ tracked /\ resident /\ ~pinned

\* DeletePage has returned true for a resident page that the replacer
\* tracked: its frame is back in the free list
C19_Witness ==
  /\ th[1].pc = "done" /\ th[1].op = "DeletePage" /\ th[1].ret = "true"
  /\ th[1].page # nullptr
  /\ TimesFree(th[1].page) = 1
  /\ pages_[th[1].page].page_id_ = INVALID_PAGE_ID

\* C18: in every state a page id is a key of the page table exactly when the
\* frame it maps to holds that page id, and no two keys map to the same
\* frame; when DeletePage(p) has returned true for a resident page p, p is not
\* a key of the page table.
C18_PageTable ==
  /\ \A p \in DOMAIN page_table_ : pages_[page_table_[p]].page_id_ = p
  /\ \A f \in DOMAIN pages_ :
       pages_[f].page_id_ # INVALID_PAGE_ID =>
         /\ pages_[f].page_id_ \in DOMAIN page_table_
         /\ page_table_[pages_[f].page_id_] = f
  /\ \A p, q \in DOMAIN page_table_ : page_table_[p] = page_table_[q] => p = q
  /\ (th[1].pc = "done" /\ th[1].op = "DeletePage" /\ th[1].ret = "true"
      /\ th[1].page # nullptr) => th[1].key \notin DOMAIN page_table_

\* what the disk holds for the page in frame f is what the frame holds
OnDisk(n, f) == DiskRead(n, n.pages_[f].page_id_) = n.pages_[f].data

\* C20: whenever the pool is asked to write a page, the disk afterwards holds
\* the frame's content for that page: after FlushPage(p) has returned true,
\* after FlushAllPages for every frame that holds a page, after an UnpinPage
\* that brought a dirty page to pin_count 0, and, for the page that FetchPage
\* or NewPage evicted while it was dirty, the content its frame had.
C20_Step ==
  \A n \in {SP} : \A f \in {T(n, 1).page} :
    /\ (Returns(1, "FlushPage") /\ T(n, 1).ret = "true") => OnDisk(n, f)
    /\ Returns(1, "FlushAllPages") =>
         \A g \in DOMAIN n.pages_ : n.pages_[g].page_id_ # INVALID_PAGE_ID => OnDisk(n, g)
    /\ ((Returns(1, "UnpinPage dirty") \/ Returns(1, "UnpinPage"))
        /\ f # nullptr /\ pages_[f].pin_count_ = 1 /\ n.pages_[f].is_dirty_) => OnDisk(n, f)
    /\ ((Returns(1, "FetchPage") \/ Returns(1, "NewPage"))
        /\ "evict" \in T(n, 1).did /\ pages_[f].is_dirty_) =>
         DiskRead(n, pages_[f].page_id_) = pages_[f].data

C20_WriteElisionTransparent == [][C20_Step]_vars

\* the tracked frame with the least time in b (0: not tracked), nullptr if none
Oldest(b) ==
  IF \A f \in FrameIds : b[f] = 0 THEN nullptr
  ELSE CHOOSE f \in FrameIds : b[f] > 0 /\ \A g \in FrameIds : b[g] > 0 => b[f] <= b[g]

\* for every frame, the position in the calls h[1..i] of the Unpin since which
\* it is tracked (0: not tracked), for a replacer that evicts the frame whose
\* Unpin is the earliest
RECURSIVE Since(_, _)
Since(h, i) ==
  IF i = 0 THEN [f \in FrameIds |-> 0]
  ELSE Then(Since(h, i - 1), LAMBDA b :
       CASE h[i].op = "Unpin" -> IF b[h[i].key] = 0 THEN [b EXCEPT ![h[i].key] = i] ELSE b
         [] h[i].op = "Pin" -> [b EXCEPT ![h[i].key] = 0]
         [] OTHER -> IF Oldest(b) = nullptr THEN b ELSE [b EXCEPT ![Oldest(b)] = 0])

TrackedSince == Since(prep, Len(prep))

\* C21: Victim returns false and leaves the list as it is when no frame is
\* tracked; otherwise it returns true with the tracked frame whose Unpin is
\* the earliest, removes that frame and no other, and Size() is one less.
C21_Step ==
  Called(1, "Victim") =>
    \A old \in {Oldest(TrackedSince)} :
      IF old = nullptr
      THEN th'[1].ret = "false" /\ list_' = list_
      ELSE /\ th'[1].ret = "true"
           /\ th'[1].key = old
           /\ LRUSize(list_') = LRUSize(list_) - 1
           /\ Range(list_') = Range(list_) \ {old}

C21_VictimIsOldest == [][C21_Step]_vars

\* after Unpin(f), Unpin(g) and a second Unpin(f), Victim has returned f
C21_Witness ==
  /\ th[1].pc = "done" /\ th[1].op = "Victim" /\ th[1].ret = "true"
  /\ \E f, g \in FrameIds :
       /\ f # g
       /\ prep = <<LruCalled("Unpin", f), LruCalled("Unpin", g), LruCalled("Unpin", f),
                   LruCalled("Victim", f)>>
       /\ th[1].key = f
       /\ list_ = <<g>>

\* the last of the calls Pin(f) and Unpin(f) among h[1..i] ("none" if neither was made)
RECURSIVE LastOn(_, _, _)
LastOn(h, i, f) ==
  IF i = 0 THEN "none"
  ELSE IF h[i].op \in {"Pin", "Unpin"} /\ h[i].key = f THEN h[i].op
  ELSE LastOn(h, i - 1, f)

\* C22: Unpin(f) of a tracked frame and Pin(f) of a frame that is not tracked
\* leave the list, and so Size() and the eviction order, as they are; Pin(f)
\* leaves f untracked; and Victim returns no frame whose last Pin or Unpin
\* call was a Pin.
C22_Step ==
  \A f \in {th'[1].key} :
    /\ (Called(1, "Unpin") /\ InSeq(list_, f)) => list_' = list_
    /\ (Called(1, "Pin") /\ ~InSeq(list_, f)) => list_' = list_
    /\ Called(1, "Pin") => ~InSeq(list_', f)
    /\ (Called(1, "Victim") /\ th'[1].ret = "true") => LastOn(prep, Len(prep), f) = "Unpin"

C22_NoOps == [][C22_Step]_vars

\* Unpin(f) has returned for a frame f that was tracked, with g unpinned
\* after it: f is still the next victim
C22_Witness ==
  /\ th[1].pc = "done" /\ th[1].op = "Unpin"
  /\ \E f, g \in FrameIds :
       /\ f # g
       /\ prep = <<LruCalled("Unpin", f), LruCalled("Unpin", g), LruCalled("Unpin", f)>>
       /\ list_ = <<g, f>>

\* the step is a call UnpinPage(p, d) that has returned
UnpinReturns == Returns(1, "UnpinPage dirty") \/ Returns(1, "UnpinPage")

\* C23: UnpinPage(p, d) of a resident page with pin_count > 0 returns true,
\* takes exactly one pin, and the frame is tracked by the replacer afterwards
\* exactly when the count has reached 0; with pin_count 0 it returns false and
\* leaves the count and the replacer as they are; in both cases the dirty flag
\* becomes (old flag or d).  For a page that is not resident it returns true
\* and changes no frame.
C23_Step ==
  UnpinReturns =>
    \A f \in {th'[1].page} : \A d \in {th'[1].op = "UnpinPage dirty"} :
      IF f = nullptr
      THEN th'[1].ret = "true" /\ pages_' = pages_
      ELSE /\ pages_'[f].is_dirty_ = (pages_[f].is_dirty_ \/ d)
           /\ pages_'[f].page_id_ = pages_[f].page_id_
           /\ IF pages_[f].pin_count_ > 0
              THEN /\ th'[1].ret = "true"
                   /\ pages_'[f].pin_count_ = pages_[f].pin_count_ - 1
                   /\ InSeq(list_', f) <=> pages_'[f].pin_count_ = 0
              ELSE /\ th'[1].ret = "false"
                   /\ pages_'[f].pin_count_ = 0
                   /\ list_' = list_

C23_UnpinPage == [][C23_Step]_vars

\* UnpinPage(p, false) has taken one of the two pins of a dirty page: the
\* page is still pinned, still dirty and not tracked
C23_Witness ==
  /\ th[1].pc = "done" /\ th[1].op = "UnpinPage" /\ th[1].ret = "true"
  /\ th[1].page # nullptr
  /\ pages_[th[1].page].pin_count_ = 1
  /\ pages_[th[1].page].is_dirty_
  /\ ~InSeq(list_, th[1].page)

\* the step is a call that needs a frame and has returned: FetchPage of a page
\* that is not resident, or NewPage
NeedsFrame ==
  \/ Returns(1, "FetchPage") /\ FrameOf(S, th'[1].key) = nullptr
  \/ Returns(1, "NewPage")

\* C24: FetchPage of a non-resident page and NewPage return a null pointer
\* exactly when the free list is empty and the replacer tracks no frame; then
\* no frame's page id, pin count, dirty flag or content changes, nothing is
\* written to disk and no page id is allocated.  Whenever the free list is not
\* empty the frame comes from the free list and every resident page stays in
\* its frame.
C24_Step ==
  NeedsFrame =>
    /\ th'[1].ret = "nullptr" <=> (free_list_ = <<>> /\ list_ = <<>>)
    /\ th'[1].ret = "nullptr" =>
         /\ pages_' = pages_
         /\ disk' = disk
         /\ next_page_id_' = next_page_id_
         /\ free_list_' = free_list_ /\ list_' = list_
    /\ free_list_ # <<>> =>
         /\ th'[1].page = Last(free_list_)
         /\ free_list_' = Front(free_list_)
         /\ list_' = list_
         /\ "evict" \notin th'[1].did
         /\ \A g \in DOMAIN pages_ :
              pages_[g].page_id_ # INVALID_PAGE_ID =>
                pages_'[g].page_id_ = pages_[g].page_id_

C24_Exhaustion == [][C24_Step]_vars

\* NewPage has returned null although one of the pinned frames holds a dirty
\* page whose content differs from what is on disk
C24_Witness ==
  /\ th[1].pc = "done" /\ th[1].op = "NewPage" /\ th[1].ret = "nullptr"
  /\ \E g \in DOMAIN pages_ :
       /\ pages_[g].is_dirty_
       /\ pages_[g].data # DiskRead(S, pages_[g].page_id_)

\* C25: DeletePage(p) of a resident page with pin_count > 0 returns false and
\* leaves the frame, the page table, the replacer and the free list as they
\* are; of a resident page with pin_count 0 it returns true, and afterwards
\* the frame is in the free list, holds INVALID_PAGE_ID and is not tracked by
\* the replacer; of a page that is not resident it returns true and changes
\* no frame.
C25_Step ==
  Returns(1, "DeletePage") =>
    \A f \in {th'[1].page} :
      IF f = nullptr
      THEN th'[1].ret = "true" /\ pages_' = pages_
      ELSE IF pages_[f].pin_count_ > 0
      THEN /\ th'[1].ret = "false"
           /\ pages_' = pages_
           /\ page_table_' = page_table_
           /\ list_' = list_
           /\ free_list_' = free_list_
      ELSE /\ th'[1].ret = "true"
           /\ InSeq(free_list_', f)
           /\ pages_'[f].page_id_ = INVALID_PAGE_ID
           /\ ~InSeq(list_', f)

C25_DeletePage == [][C25_Step]_vars

\* DeletePage has refused a page that its caller holds pinned
C25_Witness ==
  /\ th[1].pc = "done" /\ th[1].op = "DeletePage" /\ th[1].ret = "false"
  /\ th[1].page # nullptr
  /\ pages_[th[1].page].page_id_ = th[1].key
  /\ pages_[th[1].page].pin_count_ > 0

\* the frames that hold a leaf some key of which the scan of thread t yielded
LeavesLeft(s, t) ==
  {f \in DOMAIN s.pages_ :
     /\ s.pages_[f].page_id_ \notin {INVALID_PAGE_ID, HEADER_PAGE_ID}
     /\ IsLeafPage(D(s, f))
     /\ \E i \in 1..D(s, f).size_ : D(s, f).array[i][1] \in Range(T(s, t).result)}

\* C26: once a scan that yielded keys has run to the end (operator++ has left
\* its last leaf), every frame's pin count is what it was before Begin, every
\* leaf the scan went through has pin count 0, and the scanning thread holds
\* no read latch on it.
C26_Step ==
  \A n \in {SP} :
    (Returns(2, "Begin") /\ T(n, 2).leaf = nullptr /\ T(n, 2).result # <<>>) =>
      /\ \A f \in DOMAIN pages_ :
           n.pages_[f].page_id_ = pages_[f].page_id_ =>
             n.pages_[f].pin_count_ = pages_[f].pin_count_
      /\ \A f \in LeavesLeft(n, 2) :
           /\ n.pages_[f].pin_count_ = 0
           /\ ~Holds(n.latch[f], 2, FALSE)

C26_IteratorReleases == [][C26_Step]_vars

\* C27: an Insert that gets no page from NewPage (in StartNewTree, Split or
\* InsertIntoParent) raises OUT_OF_MEMORY; it never latches or otherwise uses
\* the null pointer.
C27_Step ==
  Called(1, "Insert") =>
    /\ failed' # "null dereference: NewPage returned nullptr"
    /\ (failed' = "" /\ th'[1].pc = "done" /\ th'[1].ret = "OUT_OF_MEMORY") =>
         free_list_' = <<>> /\ list_' = <<>>

C27_OutOfMemory == [][C27_Step]_vars

\* the step is a Remove whose coalesce took an entry from the internal root
\* and left it with two entries or more
RootKeepsTwo(n) ==
  /\ Called(1, "Remove")
  /\ root_page_id_ # INVALID_PAGE_ID
  /\ ~IsLeafPage(PageImage(S, root_page_id_))
  /\ "coalesce" \in T(n, 1).did
  /\ PageImage(n, root_page_id_).size_ < PageImage(S, root_page_id_).size_
  /\ PageImage(n, root_page_id_).size_ >= 2

\* C28: when a coalesce below the root leaves the internal root with two
\* entries or more, AdjustRoot is not applied to it: its assertion on the
\* root's size does not fail, root_page_id_ is unchanged, and the old root is
\* still the internal page at the top of the tree.
C28_Step ==
  \A n \in {SP} :
    RootKeepsTwo(n) =>
      /\ failed' # "assert AdjustRoot internal root GetSize() == 1"
      /\ "adjust root" \notin T(n, 1).did
      /\ n.root_page_id_ = root_page_id_
      /\ failed' = "" => IsRootPage(PageImage(n, root_page_id_))

C28_RootKept == [][C28_Step]_vars

\* between s and n thread t has changed the entries of an internal page whose
\* exclusive latch it holds neither in s nor in n
WritesUnlatched(s, n, t) ==
  \E f \in DOMAIN s.pages_ :
    /\ s.pages_[f].page_id_ \notin {INVALID_PAGE_ID, HEADER_PAGE_ID}
    /\ n.pages_[f].page_id_ = s.pages_[f].page_id_
    /\ D(s, f).page_type_ = "INTERNAL_PAGE"
    /\ (D(n, f).array # D(s, f).array \/ D(n, f).size_ # D(s, f).size_)
    /\ ~Holds(s.latch[f], t, TRUE)
    /\ ~Holds(n.latch[f], t, TRUE)

\* thread t, run alone from s to its return, makes such a change in one of its steps
RECURSIVE SeqUnlatched(_, _)
SeqUnlatched(s, t) ==
  IF Terminal(s, t) \/ ~Guard(s, t) THEN FALSE
  ELSE Then(Micro(s, t), LAMBDA n : WritesUnlatched(s, n, t) \/ SeqUnlatched(n, t))

\* C29: in no step of an Insert or a Remove does the thread change the
\* entries of an internal page whose exclusive latch it does not hold.
C29_Step ==
  \A n \in {SP} :
    /\ Called(1, "Insert") => ~SeqUnlatched(CallInsert(S, 1, T(n, 1).key, T(n, 1).value), 1)
    /\ Called(1, "Remove") => ~SeqUnlatched(CallRemove(S, 1, T(n, 1).key), 1)

C29_InternalWritesLatched == [][C29_Step]_vars

\* between s and n thread t has written root_page_id_ although it did not
\* hold the root latch exclusively in s and its step does not begin by taking it
RootWrittenUnlatched(s, n, t) ==
  /\ n.root_page_id_ # s.root_page_id_
  /\ T(s, t).pc # "Ins_LockRoot"
  /\ ~Holds(s.root_latch, t, TRUE)

\* thread t, run alone from s to its return, makes such a write in one of its steps
RECURSIVE SeqRootUnlatched(_, _)
SeqRootUnlatched(s, t) ==
  IF Terminal(s, t) \/ ~Guard(s, t) THEN FALSE
  ELSE Then(Micro(s, t), LAMBDA n : RootWrittenUnlatched(s, n, t) \/ SeqRootUnlatched(n, t))

\* C30: in no step of an Insert or a Remove does the thread write
\* root_page_id_ without holding the root latch exclusively.
C30_Step ==
  \A n \in {SP} :
    /\ Called(1, "Insert") =>
         ~SeqRootUnlatched(CallInsert(S, 1, T(n, 1).key, T(n, 1).value), 1)
    /\ Called(1, "Remove") => ~SeqRootUnlatched(CallRemove(S, 1, T(n, 1).key), 1)

C30_RootIdUnderRootLatch == [][C30_Step]_vars

(* ---------------- C31: what a write descent keeps latched -------------- *)
\* thread t holds some latch in s that it does not hold in n
ReleasedSome(s, n, t) ==
  \/ Holds(s.root_latch, t, TRUE) /\ ~Holds(n.root_latch, t, TRUE)
  \/ \E f \in DOMAIN s.pages_ : Holds(s.latch[f], t, TRUE) /\ ~Holds(n.latch[f], t, TRUE)

\* after the step from s to n thread t holds the root latch or the latch of a
\* frame other than page
HoldsAbove(n, t, page) ==
  \/ Holds(n.root_latch, t, TRUE)
  \/ \E f \in DOMAIN n.pages_ : f # page /\ Holds(n.latch[f], t, TRUE)

\* s to n is a CrabingProtocalFetchPage of a write descent of thread t that
\* ends otherwise than the rule says: a safe page with something above it
\* still latched, or an unsafe page with something released
CrabsWrongly(s, n, t) ==
  /\ T(s, t).pc = "Crab_Latch"
  /\ T(s, t).opType # "READ"
  /\ T(s, t).page # nullptr
  /\ n.failed = ""
  /\ IF IsSafe(D(s, T(s, t).page), T(s, t).opType)
     THEN HoldsAbove(n, t, T(s, t).page)
     ELSE ReleasedSome(s, n, t)

RECURSIVE SeqCrabsWrongly(_, _)
SeqCrabsWrongly(s, t) ==
  IF Terminal(s, t) \/ ~Guard(s, t) THEN FALSE
  ELSE Then(Micro(s, t), LAMBDA n : CrabsWrongly(s, n, t) \/ SeqCrabsWrongly(n, t))

\* C31: when a write descent (Insert or Remove) has latched a page that is
\* safe for the operation, the thread holds no latch of an ancestor and not
\* the root latch, the root page included; when the page is not safe, every
\* latch the thread held is still held.
C31_Step ==
  \A n \in {SP} :
    /\ Called(1, "Insert") => ~SeqCrabsWrongly(CallInsert(S, 1, T(n, 1).key, T(n, 1).value), 1)
    /\ Called(1, "Remove") => ~SeqCrabsWrongly(CallRemove(S, 1, T(n, 1).key), 1)

C31_SafePageReleasesAncestors == [][C31_Step]_vars

(* ---------------- C32: what a read descent keeps latched --------------- *)
\* the page latches thread t holds
RECURSIVE LatchesHeld(_, _, _)
LatchesHeld(s, t, frames) ==
  IF frames = {} THEN 0
  ELSE Then(CHOOSE f \in frames : TRUE, LAMBDA f :
       s.latch[f].r[t] + (IF s.latch[f].w = t THEN 1 ELSE 0)
         + LatchesHeld(s, t, frames \ {f}))

PageLatches(s, t) == LatchesHeld(s, t, DOMAIN s.pages_)

\* s to n is a CrabingProtocalFetchPage of a read descent of thread t, begun
\* in s0, that goes otherwise than hand over hand: the page above is not
\* latched while the thread waits for the page below, more than one page is
\* latched then (so more than two once the latch is granted), or the page
\* above is still latched afterwards; or FindLeafPage returns a leaf with
\* another page latched or with a pin the thread did not have in s0
ReadsWrongly(s0, s, n, t) ==
  /\ T(s, t).pc = "Crab_Latch"
  /\ T(s, t).opType = "READ"
  /\ T(s, t).page # nullptr
  /\ n.failed = ""
  /\ \/ T(s, t).previous > 0 /\ FrameOf(s, T(s, t).previous) = nullptr
     \/ T(s, t).previous > 0 /\ ~Holds(s.latch[FrameOf(s, T(s, t).previous)], t, FALSE)
     \/ PageLatches(s, t) > 1
     \/ ~Holds(n.latch[T(s, t).page], t, FALSE)
     \/ PageLatches(n, t) # 1
     \/ /\ T(n, t).pc # "Crab_Latch"
        /\ \/ T(n, t).leaf # T(s, t).page
           \/ \E f \in DOMAIN n.pages_ :
                n.pages_[f].pin_count_ #
                  s0.pages_[f].pin_count_ + (IF f = T(n, t).leaf THEN 1 ELSE 0)

RECURSIVE SeqReadsWrongly(_, _, _)
SeqReadsWrongly(s0, s, t) ==
  IF Terminal(s, t) \/ ~Guard(s, t) THEN FALSE
  ELSE Then(Micro(s, t), LAMBDA n : ReadsWrongly(s0, s, n, t) \/ SeqReadsWrongly(s0, n, t))

\* C32: in the descent of a GetValue or a Begin the thread waits for the
\* latch of the page below while it holds the latch of the page above,
\* releases that one once the latch is granted, never holds more than two page
\* latches, and when FindLeafPage returns a leaf it holds the latch and one
\* pin of that leaf and of no other page.
C32_Step ==
  \A n \in {SP} :
    /\ Called(1, "GetValue") =>
         \A txn \in BOOLEAN : ~SeqReadsWrongly(S, CallGetValue(S, 1, T(n, 1).key, txn), 1)
    /\ Called(2, "Begin") => ~SeqReadsWrongly(S, CallBegin(S, 2, T(n, 2).key), 2)

C32_ReadDescent == [][C32_Step]_vars

\* a GetValue has found its key in a tree whose root page has internal pages
\* as children: its descent latched three pages in turn
C32_Witness ==
  /\ failed = "" /\ th[1].pc = "done" /\ th[1].op = "GetValue" /\ th[1].ret = "true"
  /\ FrameOf(S, root_page_id_) # nullptr
  /\ ~IsLeafPage(D(S, FrameOf(S, root_page_id_)))
  /\ ~IsLeafPage(PageImage(S, D(S, FrameOf(S, root_page_id_)).array[1][2]))

(* ------------------------ C33: leaf MoveAllTo -------------------------- *)
\* the entries 0..size-1 of a page, in order
Entries(d) == [i \in 1..d.size_ |-> d.array[i - 1]]

\* the step from s to n of thread t is a CoalesceOrRedistribute that has
\* coalesced two leaves
CoalescesLeaves(s, n, t) ==
  /\ T(s, t).pc = "Sib_Latch"
  /\ T(s, t).kind = "leaf"
  /\ T(s, t).page # nullptr
  /\ n.failed = ""
  /\ "coalesce" \in T(n, t).did

\* the frame of the leaf that MoveAllTo empties in that step, and of its recipient
MovedLeaf(s, t) == IF T(s, t).sibIndex = 0 THEN T(s, t).page ELSE T(s, t).node
Recipient(s, t) == IF T(s, t).sibIndex = 0 THEN T(s, t).node ELSE T(s, t).page

\* ... and MoveAllTo has done in it something else than append the leaf's
\* entries to the recipient's, hand on its next_page_id and empty the leaf
MovesAllWrongly(s, n, t) ==
  /\ CoalescesLeaves(s, n, t)
  /\ \/ Entries(D(n, Recipient(s, t))) #
          Entries(D(s, Recipient(s, t))) \o Entries(D(s, MovedLeaf(s, t)))
     \/ D(n, Recipient(s, t)).next_page_id_ # D(s, MovedLeaf(s, t)).next_page_id_
     \/ D(n, MovedLeaf(s, t)).size_ # 0

RECURSIVE SeqMovesAllWrongly(_, _)
SeqMovesAllWrongly(s, t) ==
  IF Terminal(s, t) \/ ~Guard(s, t) THEN FALSE
  ELSE Then(Micro(s, t), LAMBDA n : MovesAllWrongly(s, n, t) \/ SeqMovesAllWrongly(n, t))

\* C33: whenever a Remove coalesces two leaves, the recipient holds afterwards
\* its former entries followed by the entries of the emptied leaf, unchanged
\* and in order, whatever the middle key, its next_page_id is the emptied
\* leaf's, and the emptied leaf has size 0.
C33_Step ==
  \A n \in {SP} :
    Called(1, "Remove") => ~SeqMovesAllWrongly(CallRemove(S, 1, T(n, 1).key), 1)

C33_LeafMoveAllTo == [][C33_Step]_vars

(* ------------------------ C34: MoveFirstToEndOf ------------------------ *)
\* the step from s to n of thread t is a CoalesceOrRedistribute that has
\* redistributed from the sibling on the right into the leftmost child:
\* Redistribute with index 0 calls MoveFirstToEndOf on the sibling
MovesFirst(s, n, t) ==
  /\ T(s, t).pc = "Sib_Latch"
  /\ T(s, t).page # nullptr
  /\ T(s, t).sibIndex = 0
  /\ n.failed = ""
  /\ "redistribute" \in T(n, t).did
  /\ D(s, T(s, t).page).size_ >= 2

\* ... and the sibling (frame page) does not hold its former entries but the
\* first, or the recipient (frame node) not its former entries and after them
\* that first entry, or the parent's key for the sibling is not the sibling's
\* new first key
MovesFirstWrongly(s, n, t) ==
  /\ MovesFirst(s, n, t)
  /\ \/ Entries(D(n, T(s, t).page)) # Tail(Entries(D(s, T(s, t).page)))
     \/ Entries(D(n, T(s, t).node)) #
          Append(Entries(D(s, T(s, t).node)), D(s, T(s, t).page).array[0])
     \/ \E p \in DOMAIN n.pages_ :
          /\ n.pages_[p].page_id_ = D(n, T(s, t).page).parent_page_id_
          /\ ValueIndex(D(n, p), D(n, T(s, t).page).page_id_) >= 0
          /\ KeyAt(D(n, p), ValueIndex(D(n, p), D(n, T(s, t).page).page_id_)) #
               D(n, T(s, t).page).array[0][1]

RECURSIVE SeqMovesFirstWrongly(_, _)
SeqMovesFirstWrongly(s, t) ==
  IF Terminal(s, t) \/ ~Guard(s, t) THEN FALSE
  ELSE Then(Micro(s, t), LAMBDA n : MovesFirstWrongly(s, n, t) \/ SeqMovesFirstWrongly(n, t))

\* C34: whenever a Remove redistributes with MoveFirstToEndOf from a leaf or
\* internal page of size n >= 2, that page holds afterwards its former entries
\* 1..n-1 in order, the recipient its former entries followed by the removed
\* first entry, and the parent's key for the page is the page's new first key.
C34_Step ==
  \A n \in {SP} :
    Called(1, "Remove") => ~SeqMovesFirstWrongly(CallRemove(S, 1, T(n, 1).key), 1)

C34_MoveFirstToEndOf == [][C34_Step]_vars

(* -------------------- C35: leaf MoveLastToFrontOf ---------------------- *)
KeysOf(d) == {d.array[i][1] : i \in 0..(d.size_ - 1)}

\* the step from s to n of thread t is a CoalesceOrRedistribute of a leaf
\* that is not its parent's first child and that has redistributed: the two
\* leaves did not fit into one, and Redistribute has called MoveLastToFrontOf
\* on the sibling on the left (frame page)
MovesLast(s, n, t) ==
  /\ T(s, t).pc = "Sib_Latch"
  /\ T(s, t).kind = "leaf"
  /\ T(s, t).page # nullptr
  /\ T(s, t).sibIndex > 0
  /\ n.failed = ""
  /\ "redistribute" \in T(n, t).did

\* ... and the sibling's last entry is not the leaf's first one afterwards
MovesLastWrongly(s, n, t) ==
  /\ MovesLast(s, n, t)
  /\ \/ D(n, T(s, t).page).size_ # D(s, T(s, t).page).size_ - 1
     \/ D(n, T(s, t).node).size_ # D(s, T(s, t).node).size_ + 1
     \/ KeysOf(D(n, T(s, t).page)) \cup KeysOf(D(n, T(s, t).node)) #
          KeysOf(D(s, T(s, t).page)) \cup KeysOf(D(s, T(s, t).node))
     \/ D(n, T(s, t).node).array[0] #
          D(s, T(s, t).page).array[D(s, T(s, t).page).size_ - 1]
     \/ \E p \in DOMAIN n.pages_ :
          /\ n.pages_[p].page_id_ = D(n, T(s, t).node).parent_page_id_
          /\ KeyAt(D(n, p), T(s, t).sibIndex) # D(n, T(s, t).node).array[0][1]

RECURSIVE SeqMovesLastWrongly(_, _)
SeqMovesLastWrongly(s, t) ==
  IF Terminal(s, t) \/ ~Guard(s, t) THEN FALSE
  ELSE Then(Micro(s, t), LAMBDA n : MovesLastWrongly(s, n, t) \/ SeqMovesLastWrongly(n, t))

\* C35: whenever a Remove redistributes into an underflowing leaf from its
\* left sibling, the sibling's last entry becomes the leaf's first: the
\* sibling has one entry less, the leaf one more, the keys of the two leaves
\* together are the same, and the parent's key for the leaf is its new first key.
C35_Step ==
  \A n \in {SP} :
    Called(1, "Remove") => ~SeqMovesLastWrongly(CallRemove(S, 1, T(n, 1).key), 1)

C35_LeafMoveLastToFrontOf == [][C35_Step]_vars

(* ------------------- C36: internal MoveLastToFrontOf ------------------- *)
\* how many of the entries 0..size-1 of an internal page have the child c
ChildCount(d, c) == Cardinality({i \in 0..(d.size_ - 1) : d.array[i][2] = c})

\* the step from s to n of thread t is a CoalesceOrRedistribute of an
\* internal page that is not its parent's first child and that has
\* redistributed: Redistribute has called MoveLastToFrontOf on the sibling on
\* the left (frame page) with the page (frame node) as recipient
MovesLastChild(s, n, t) ==
  /\ T(s, t).pc = "Sib_Latch"
  /\ T(s, t).kind = "internal"
  /\ T(s, t).page # nullptr
  /\ T(s, t).sibIndex > 0
  /\ n.failed = ""
  /\ "redistribute" \in T(n, t).did

\* ... and the recipient does not hold the sibling's last entry followed by
\* its own former entries, or the moved child has another parent_page_id than
\* the recipient's page id, or the two pages hold other children than before
MovesLastChildWrongly(s, n, t) ==
  /\ MovesLastChild(s, n, t)
  /\ \/ Entries(D(n, T(s, t).node)) #
          <<D(s, T(s, t).page).array[D(s, T(s, t).page).size_ - 1]>>
            \o Entries(D(s, T(s, t).node))
     \/ PageImage(n, D(s, T(s, t).page).array[D(s, T(s, t).page).size_ - 1][2]).parent_page_id_
          # D(n, T(s, t).node).page_id_
     \/ \E c \in 0..s.next_page_id_ :
          ChildCount(D(n, T(s, t).page), c) + ChildCount(D(n, T(s, t).node), c) #
            ChildCount(D(s, T(s, t).page), c) + ChildCount(D(s, T(s, t).node), c)

RECURSIVE SeqMovesLastChildWrongly(_, _)
SeqMovesLastChildWrongly(s, t) ==
  IF Terminal(s, t) \/ ~Guard(s, t) THEN FALSE
  ELSE Then(Micro(s, t), LAMBDA n :
            MovesLastChildWrongly(s, n, t) \/ SeqMovesLastChildWrongly(n, t))

\* C36: whenever a Remove redistributes into an internal page from its left
\* sibling, the sibling's last (key, child) entry is in slot 0 of the page
\* afterwards and the page's former entries follow it, each one slot to the
\* right, none lost and none twice; the moved child's parent_page_id is the
\* page's id; the two pages hold together the same children as before.
C36_Step ==
  \A n \in {SP} :
    Called(1, "Remove") => ~SeqMovesLastChildWrongly(CallRemove(S, 1, T(n, 1).key), 1)

C36_InternalMoveLastToFrontOf == [][C36_Step]_vars

(* ------------------ C37: what a returned call has left ----------------- *)
\* thread t holds no page latch and not the root latch, and the page set and
\* the deleted page set of its operation context are empty
HoldsNothing(s, t) ==
  /\ PageLatches(s, t) = 0
  /\ s.root_latch.w # t
  /\ s.root_latch.r[t] = 0
  /\ T(s, t).rootLockedCnt = 0
  /\ T(s, t).page_set = <<>>
  /\ T(s, t).deleted_set = {}

\* the call op of thread t has come to the end of its last
\* FreePagesInTransaction: it has returned, or it has met the assertion there,
\* which only a debug build checks, with a page left in the deleted page set
Ends(t, op) ==
  /\ Called(t, op)
  /\ \/ th'[t].pc = "done" /\ failed' = "" /\ th'[t].ret # "OUT_OF_MEMORY"
     \/ failed' = "assert transaction->GetDeletedPageSet()->empty()"

\* C37: when an Insert, Remove or GetValue that a thread holding nothing has
\* called returns, the thread holds no page latch and not the root latch, and
\* the page set and the deleted page set of its operation are empty: every
\* page marked for deletion was handed to DeletePage by FreePagesInTransaction.
C37_Step ==
  \A t \in Threads : \A op \in {"Insert", "Remove", "GetValue"} :
    (Ends(t, op) /\ HoldsNothing(S, t)) => HoldsNothing(SP, t)

C37_ReturnsClean == [][C37_Step]_vars

(* --------------- C38: latched pages of the page set are pinned --------- *)
\* a frame of thread t's page set has pin count 0: the buffer pool may give
\* the frame to another page while the thread holds its latch
UnpinnedInPageSet(s, t) ==
  \E i \in 1..Len(T(s, t).page_set) :
    /\ Holds(s.latch[T(s, t).page_set[i]], t, TRUE)
    /\ s.pages_[T(s, t).page_set[i]].pin_count_ = 0

\* thread t, run alone from s to the end of its call, is at some point where
\* it waits for a latch or goes on to the next part of the operation in such a state
RECURSIVE SeqUnpinned(_, _)
SeqUnpinned(s, t) ==
  IF Terminal(s, t) \/ ~Guard(s, t) THEN FALSE
  ELSE Then(Micro(s, t), LAMBDA n :
            (n.failed = "" /\ UnpinnedInPageSet(n, t)) \/ SeqUnpinned(n, t))

\* C38: from the moment an Insert or a Remove has latched a page into its
\* page set until FreePagesInTransaction releases it, the page's pin count is
\* at least 1: no UnpinPage of the tree takes a pin that the operation needs
\* (the coalesce of internal pages included).
C38_Step ==
  \A n \in {SP} :
    /\ Called(1, "Insert") => ~SeqUnpinned(CallInsert(S, 1, T(n, 1).key, T(n, 1).value), 1)
    /\ Called(1, "Remove") => ~SeqUnpinned(CallRemove(S, 1, T(n, 1).key), 1)

C38_PageSetPinned == [][C38_Step]_vars

(* -------------------- C39: the pins a call leaves ---------------------- *)
\* in n no frame is pinned, but for the pins the header page had in s (its
\* creator, who is not the tree, holds one)
PinsBalanced(s, n) ==
  \A f \in DOMAIN n.pages_ :
    n.pages_[f].pin_count_ =
      (IF n.pages_[f].page_id_ = HEADER_PAGE_ID /\ s.pages_[f].page_id_ = HEADER_PAGE_ID
       THEN s.pages_[f].pin_count_ ELSE 0)

\* no iterator is alive and none has been: thread 2 has made no scan
NoIterator == th[2].op = "none"

\* C39: with one thread and no iterator, when an Insert, Remove or GetValue
\* called with no tree page pinned returns, no tree page is pinned and the
\* header page has the pins it had before: each FetchPage and NewPage of the
\* operation was balanced by an UnpinPage.
C39_Step ==
  \A op \in {"Insert", "Remove", "GetValue"} :
    (Returns(1, op) /\ th'[1].ret # "OUT_OF_MEMORY" /\ NoIterator /\ PinsBalanced(S, S)) =>
      PinsBalanced(S, SP)

C40_LeafFound ==
  \A t \in Threads :
    (th[t].op \in {"Insert", "Remove"} /\ th[t].pc \in {"Ins_Body", "Rem_Body"}) =>
      th[t].leaf # nullptr

====
